---- MODULE Spec2Model ----
(***************************************************************************)
(* Relationship inference pipeline of bigquery-to-erd: conflict resolution *)
(* and filtering (relationship_detector.py), the relationship cache        *)
(* (relationship_cache.py), the incremental state                          *)
(* (incremental_processor.py) and the orchestration with the data          *)
(* validation pass (enhanced_relationship_detector.py,                     *)
(* data_relationship_tester.py).                                           *)
(*                                                                         *)
(* Conventions.  A confidence is a Python float in [0,1]; the model keeps  *)
(* it in tenths (0.8 is 8).  This drops the rounding error of the float    *)
(* sums (0.9 - 0.3 is 0.6000000000000001), which changes no comparison     *)
(* against the thresholds 0.2, 0.3, 0.5 and the bounds 0.0, 0.1, 1.0 on    *)
(* these values.  A table name is the sequence of its                      *)
(* "_"-separated tokens (<<"a","b">> is "a_b"), so that joining names with *)
(* "_" is concatenation of sequences.                                      *)
(***************************************************************************)
EXTENDS Integers, Sequences, FiniteSets, TLC

VARIABLES
    \* RelationshipDetector.detect_relationships, lines 49-83
    all_relationships,   \* the candidates collected from the generators
    unique_relationships,\* output of _resolve_relationship_conflicts
    filtered,            \* output of a _filter_relationships
    max_rels,            \* the per-table maximum the last filter ran with
    stage,               \* position in the pipeline
    \* RelationshipCache
    memory_cache,        \* cache key -> relationship
    disk_cache,          \* cache key -> [data, mtime]  (<key>.json)
    now,                 \* time.time(), in hours
    lookup,              \* the get_cached_relationship call that just returned
    stamp,               \* history: cache key -> when its memory entry was written
    written,             \* history: table pair -> what this object cached for it
    \* The table schemas of the dataset and IncrementalProcessor
    table_schemas,       \* table id -> the table's current schema (TableSchema)
    processed_tables,    \* set of table ids
    table_checksums,     \* table id -> checksum
    relationship_graph,  \* dict in insertion order: <<[table, relationships], ...>>
    state_file,          \* the saved state document, None while there is none
    log,                 \* history: one record per detect_relationships_enhanced call
    \* ParallelProcessor.process_tables_parallel
    futures,             \* future_to_group: one record per submitted group task
    collected,           \* all_relationships of process_tables_parallel
    run_status,          \* "idle", "submitting", "collecting", "returned", "raised"
                         \* or, for a call that hangs in the caller's thread, "inline"
    clock,               \* seconds since the call
    \* SchemaAnalyzer and the generators of RelationshipDetector
    fetched,             \* history: the tables as the connector delivered them
    analyzed,            \* the TableSchema objects, annotated in place
    parsed,              \* history: parse_table_schema calls per table
    detected,            \* None, or the outcome of detect_relationships
    \* DataRelationshipTester on sampled values
    data_test,           \* None, or the samples of a test and its DataTestResult
    \* ParallelProcessor's grouping functions
    grouping,            \* None, or the arguments and the groups of a grouping call
    \* EnhancedRelationshipDetector
    sample_cache,        \* DataRelationshipTester.sample_cache: key -> sampled values
    config,              \* performance_config and data_testing_config
    connector,           \* DataRelationshipTester.connector is set
    waiting,             \* the calls under way: each waits for its group tasks or
                         \* for the query of a sample
    cleared              \* history: clear_cache was called since the last call ended

detectorVars == <<all_relationships, unique_relationships, filtered, max_rels, stage>>
cacheVars == <<memory_cache, disk_cache, now, lookup, stamp, written>>
incrementalVars ==
    <<table_schemas, processed_tables, table_checksums, relationship_graph, state_file,
      log>>
parallelVars == <<futures, collected, run_status, clock>>
schemaVars == <<fetched, analyzed, parsed, detected>>
enhancedVars == <<sample_cache, config, connector, waiting, cleared>>
vars == <<detectorVars, cacheVars, incrementalVars, parallelVars, schemaVars, data_test, grouping, enhancedVars>>

\* An optional value is a sequence: None is empty, Some(x) holds x.
None == <<>>
Some(x) == <<x>>

EmptyMap == [k \in {} |-> None]
\* d[k] = v, as a Python dict assignment
Put(d, k, v) == [x \in DOMAIN d \cup {k} |-> IF x = k THEN v ELSE d[x]]
\* d without the keys of ks
Without(d, ks) == [x \in DOMAIN d \ ks |-> d[x]]

Range(s) == {s[i] : i \in DOMAIN s}

Min(a, b) == IF a <= b THEN a ELSE b
Max(a, b) == IF a >= b THEN a ELSE b

(***************************************************************************)
(* models.py: Relationship                                                 *)
(***************************************************************************)
Relationship(st, sc, tt, tc, ty, conf, method, custom) ==
    [source_table |-> st, source_column |-> sc,
     target_table |-> tt, target_column |-> tc,
     relationship_type |-> ty, confidence |-> conf,
     detection_method |-> method, is_custom |-> custom]

\* RelationshipType, the values the enum accepts
RelationshipType == {"one_to_one", "one_to_many", "many_to_one", "many_to_many"}

(***************************************************************************)
(* relationship_detector.py: _resolve_relationship_conflicts               *)
(***************************************************************************)
\* A key that also tells two detections of one column pair apart.
KeyWithMethod(rel) ==
    <<rel.source_table, rel.source_column, rel.target_table, rel.target_column,
      rel.detection_method>>

\* line 728: key = (source_table, source_column, target_table, target_column)
ConflictKey(rel) ==
    <<rel.source_table, rel.source_column, rel.target_table, rel.target_column>>

\* Ties go to the later candidate.
ReplacesOnTie(rel, existing) ==
    rel.confidence >= existing.confidence

\* lines 735-740: whether rel takes the place of the stored candidate
Replaces(rel, existing) ==
    \/ rel.confidence > existing.confidence
    \/ /\ rel.confidence = existing.confidence
       /\ rel.is_custom /\ ~existing.is_custom

\* lines 725-742.  relationship_map is a dict: it keeps its keys in the order
\* of their first insertion, and assigning to a present key keeps its place.
RECURSIVE ResolveInto(_, _)
ResolveInto(relationship_map, relationships) ==
    IF relationships = <<>> THEN relationship_map
    ELSE LET rel == Head(relationships)
             hit == {i \in DOMAIN relationship_map :
                        ConflictKey(relationship_map[i]) = ConflictKey(rel)}
         IN  IF hit = {}
             THEN ResolveInto(Append(relationship_map, rel), Tail(relationships))
             ELSE LET i == CHOOSE i \in hit : \A j \in hit : i <= j
                  IN  ResolveInto(
                        IF Replaces(rel, relationship_map[i])
                        THEN [relationship_map EXCEPT ![i] = rel]
                        ELSE relationship_map,
                        Tail(relationships))

resolve_relationship_conflicts(relationships) == ResolveInto(<<>>, relationships)

(***************************************************************************)
(* relationship_detector.py: _filter_relationships                         *)
(***************************************************************************)
\* list.sort(key=..., reverse=True): descending and stable.  keys[i] is the
\* sort key of s[i].
StableSortDesc(s, keys) ==
    LET n == Len(s)
        pos(i) == 1 + Cardinality({j \in 1..n :
                        keys[j] > keys[i] \/ (keys[j] = keys[i] /\ j < i)})
    IN  [p \in 1..n |-> s[CHOOSE i \in 1..n : pos(i) = p]]

\* lines 757-761: the source tables, in the order the dict first sees them
RECURSIVE SourceTables(_)
SourceTables(relationships) ==
    IF relationships = <<>> THEN <<>>
    ELSE LET t == Head(relationships).source_table
             Other(r) == r.source_table # t
         IN  <<t>> \o SourceTables(SelectSeq(Tail(relationships), Other))

GroupOf(relationships, table) ==
    LET From(r) == r.source_table = table
    IN  SelectSeq(relationships, From)

\* line 771: max_rels_per_table = min(5, len(rels))
MaxRelsPerTable == 5
\* line 787, 791: the backfill target
MinMeaningful == 2

PreferredMethods == {"enhanced_pk_fk", "foreign_key"}

\* lines 788-792: backfill until MinMeaningful are kept
RECURSIVE Backfill(_, _)
Backfill(meaningful_rels, rels) ==
    IF rels = <<>> THEN meaningful_rels
    ELSE LET rel == Head(rels)
         IN  IF rel \notin Range(meaningful_rels) /\ rel.confidence >= 3
             THEN LET more == Append(meaningful_rels, rel)
                  IN  IF Len(more) >= MinMeaningful THEN more
                      ELSE Backfill(more, Tail(rels))
             ELSE Backfill(meaningful_rels, Tail(rels))

\* lines 765-792 with the slice rels[:cap]
SelectMeaningful(group, cap) ==
    LET rels == StableSortDesc(group, [i \in DOMAIN group |-> group[i].confidence])
        top == SubSeq(rels, 1, Min(cap, Len(rels)))
        Meaningful(rel) ==
            /\ ~(rel.confidence < 2)
            /\ (rel.detection_method \in PreferredMethods \/ rel.confidence >= 5)
        meaningful_rels == SelectSeq(top, Meaningful)
    IN  IF Len(meaningful_rels) < MinMeaningful
        THEN Backfill(meaningful_rels, rels)
        ELSE meaningful_rels

\* The slice taken over the whole group.
TableFilterUncapped(group) == SelectMeaningful(group, Len(group))

\* lines 765-792: what one source table contributes
TableFilter(group) == SelectMeaningful(group, MaxRelsPerTable)

\* A pair that also tells the source columns apart.
TablePairWithColumn(rel) == <<rel.source_table, rel.source_column, rel.target_table>>

\* line 800: pair = (rel.source_table, rel.target_table)
TablePair(rel) == <<rel.source_table, rel.target_table>>

\* lines 797-803: keep the first relationship of every pair
RECURSIVE DedupPairs(_, _)
DedupPairs(rels, seen_pairs) ==
    IF rels = <<>> THEN <<>>
    ELSE LET rel == Head(rels)
         IN  IF TablePair(rel) \notin seen_pairs
             THEN <<rel>> \o DedupPairs(Tail(rels), seen_pairs \cup {TablePair(rel)})
             ELSE DedupPairs(Tail(rels), seen_pairs)

RECURSIVE FilterTables(_, _)
FilterTables(tables, relationships) ==
    IF tables = <<>> THEN <<>>
    ELSE TableFilter(GroupOf(relationships, Head(tables)))
            \o FilterTables(Tail(tables), relationships)

\* lines 744-806
filter_relationships(relationships) ==
    IF relationships = <<>> THEN relationships
    ELSE DedupPairs(FilterTables(SourceTables(relationships), relationships), {})

(***************************************************************************)
(* enhanced_relationship_detector.py: _filter_relationships                *)
(***************************************************************************)
\* lines 235-238: key = (detection_method in preferred_methods, confidence)
EnhancedSortKey(rel, preferred_methods) ==
    (IF rel.detection_method \in preferred_methods THEN 1 ELSE 0) * 100
        + rel.confidence

\* lines 233-246: the first max_rels_per_table of the sorted group that reach
\* min_confidence
EnhancedTableFilter(group, max_rels_per_table, min_confidence, preferred_methods) ==
    LET rels == StableSortDesc(group,
                    [i \in DOMAIN group |-> EnhancedSortKey(group[i], preferred_methods)])
        Confident(rel) == rel.confidence >= min_confidence
        kept == SelectSeq(rels, Confident)
    IN  SubSeq(kept, 1, Min(max_rels_per_table, Len(kept)))

RECURSIVE EnhancedFilterTables(_, _, _, _, _)
EnhancedFilterTables(tables, relationships, max_rels_per_table, min_confidence, preferred_methods) ==
    IF tables = <<>> THEN <<>>
    ELSE EnhancedTableFilter(GroupOf(relationships, Head(tables)),
                             max_rels_per_table, min_confidence, preferred_methods)
            \o EnhancedFilterTables(Tail(tables), relationships, max_rels_per_table,
                                    min_confidence, preferred_methods)

\* lines 208-251
enhanced_filter_relationships(relationships, max_rels_per_table, min_confidence, preferred_methods) ==
    IF relationships = <<>> THEN relationships
    ELSE EnhancedFilterTables(SourceTables(relationships), relationships,
                              max_rels_per_table, min_confidence, preferred_methods)

\* line 222: filtering_rules.get("min_confidence_threshold", 0.3)
DefaultMinConfidence == 3

(***************************************************************************)
(* The tail of detect_relationships on a list of candidates                *)
(***************************************************************************)
MaxCandidates == 4

Name(token) == <<token>>

\* Candidates for two column pairs as the generators and the custom rules
\* emit them: foreign_key 0.8, enhanced_pk_fk 0.9, a custom naming pattern
\* and a custom relationship rule at 0.8.
CandidatePool ==
    { Relationship(k[1], Name("c1"), k[2], Name("id"), "many_to_one", g[1], g[2], g[3]) :
        k \in {<<Name("a"), Name("b")>>, <<Name("b"), Name("a")>>},
        g \in {<<8, "foreign_key", FALSE>>, <<8, "custom_naming_pattern", FALSE>>,
               <<8, "custom_rules", TRUE>>, <<9, "enhanced_pk_fk", FALSE>>} }

\* performance_config and data_testing_config of the detector (lines 32-33
\* take them from accessors of PatternConfigLoader that pattern_config.py
\* does not define; the fields are those the detector reads), and how the
\* interpreter formats an enum member (DataValidated).  custom_rules is the
\* CustomRulesConfig the RelationshipDetector of line 36 is built with
\* (relationship_detector.py lines 22-34), None when there is none.
Config(cache_enabled, incremental_processing, parallel_processing, group_tables_by_type, batch_size, confidence_threshold, qualified_format, custom_rules) ==
    [cache_enabled |-> cache_enabled, incremental_processing |-> incremental_processing,
     parallel_processing |-> parallel_processing,
     group_tables_by_type |-> group_tables_by_type, batch_size |-> batch_size,
     data_testing_enabled |-> TRUE, confidence_threshold |-> confidence_threshold,
     qualified_format |-> qualified_format, custom_rules |-> custom_rules]

\* the configuration of the specifications that run no enhanced detector
NoConfig == Config(FALSE, FALSE, FALSE, FALSE, 1, 5, FALSE, None)

InitDetector ==
    /\ all_relationships = <<>>
    /\ unique_relationships = <<>>
    /\ filtered = <<>>
    /\ max_rels = MaxRelsPerTable
    /\ stage = "collect"

InitCache ==
    /\ memory_cache = EmptyMap
    /\ disk_cache = EmptyMap
    /\ now = 0
    /\ lookup = None
    /\ stamp = EmptyMap
    /\ written = EmptyMap

InitIncremental ==
    /\ table_schemas = EmptyMap
    /\ processed_tables = {}
    /\ table_checksums = EmptyMap
    /\ relationship_graph = <<>>
    /\ state_file = None
    /\ log = <<>>
    /\ sample_cache = EmptyMap
    /\ config = NoConfig
    /\ connector = FALSE
    /\ waiting = <<>>
    /\ cleared = FALSE

InitParallel ==
    /\ futures = <<>>
    /\ collected = <<>>
    /\ run_status = "idle"
    /\ clock = 0

InitTester == data_test = None /\ grouping = None

InitSchema ==
    /\ fetched = <<>>
    /\ analyzed = <<>>
    /\ parsed = <<>>
    /\ detected = None

\* lines 55-74: a generator's candidate is appended
Collect(rel) ==
    /\ stage = "collect"
    /\ Len(all_relationships) < MaxCandidates
    /\ all_relationships' = Append(all_relationships, rel)
    /\ UNCHANGED <<unique_relationships, filtered, max_rels, stage>>

\* line 77
Resolve ==
    /\ stage = "collect"
    /\ unique_relationships' = resolve_relationship_conflicts(all_relationships)
    /\ stage' = "resolved"
    /\ UNCHANGED <<all_relationships, filtered, max_rels>>

\* line 80
Filter ==
    /\ stage = "resolved"
    /\ filtered' = filter_relationships(unique_relationships)
    /\ max_rels' = MaxRelsPerTable
    /\ stage' = "filtered"
    /\ UNCHANGED <<all_relationships, unique_relationships>>

NextResolve ==
    /\ \/ \E rel \in CandidatePool : Collect(rel)
       \/ Resolve
       \/ Filter
    /\ UNCHANGED <<cacheVars, incrementalVars, parallelVars, schemaVars, data_test, grouping, enhancedVars>>

StartResolve == InitDetector /\ InitCache /\ InitIncremental /\ InitParallel /\ InitSchema /\ InitTester

SpecResolve == StartResolve /\ [][NextResolve]_vars

(***************************************************************************)
(* Conflict resolution: claims C1, C2 (under SpecResolve)                  *)
(***************************************************************************)
SameIdentity(r1, r2) ==
    /\ r1.source_table = r2.source_table
    /\ r1.source_column = r2.source_column
    /\ r1.target_table = r2.target_table
    /\ r1.target_column = r2.target_column

\* The candidates of all_relationships with the identity of r, by position.
IdentityGroup(r) == {k \in DOMAIN all_relationships : SameIdentity(all_relationships[k], r)}

\* The positions of the group that hold its highest confidence.
TiedAtBest(group) ==
    {k \in group : \A m \in group :
        all_relationships[m].confidence <= all_relationships[k].confidence}

\* C1: the output of conflict resolution holds no two relationships with the
\* same (source_table, source_column, target_table, target_column).
C1_UniqueIdentity ==
    stage # "collect" =>
        \A i, j \in DOMAIN unique_relationships :
            i # j => ~SameIdentity(unique_relationships[i], unique_relationships[j])

\* Four candidates for two column pairs were resolved to two relationships.
C1_Witness ==
    /\ stage = "resolved"
    /\ Len(all_relationships) = 4
    /\ Len(unique_relationships) = 2

\* C2: every identity group has a survivor; it has the highest confidence of
\* its group; if a candidate tied at that confidence is custom the survivor
\* is custom, and otherwise it is the first candidate at that confidence.
C2_KeepsBest ==
    stage # "collect" =>
        /\ \A k \in DOMAIN all_relationships : \E i \in DOMAIN unique_relationships :
                SameIdentity(unique_relationships[i], all_relationships[k])
        /\ \A i \in DOMAIN unique_relationships :
             LET kept == unique_relationships[i]
                 tied == TiedAtBest(IdentityGroup(kept))
                 first == CHOOSE k \in tied : \A m \in tied : k <= m
             IN  /\ tied # {}
                 /\ kept.confidence = all_relationships[first].confidence
                 /\ IF \E k \in tied : all_relationships[k].is_custom
                    THEN kept.is_custom /\ \E k \in tied : all_relationships[k] = kept
                    ELSE kept = all_relationships[first]

\* One group is tied between an automatic candidate seen first and a custom
\* one, another between two automatic candidates of different generators.
C2_Witness ==
    /\ stage = "resolved"
    /\ \E i, j \in DOMAIN unique_relationships :
        LET ti == TiedAtBest(IdentityGroup(unique_relationships[i]))
            tj == TiedAtBest(IdentityGroup(unique_relationships[j]))
        IN  /\ i # j
            /\ \E k, m \in ti : k < m /\ ~all_relationships[k].is_custom
                                      /\ all_relationships[m].is_custom
            /\ \E k, m \in tj : k < m /\ all_relationships[k] # all_relationships[m]
            /\ \A k \in tj : ~all_relationships[k].is_custom

(***************************************************************************)
(* The two filters on a resolved list                                      *)
(***************************************************************************)
MaxRelationships == 6

FreshTables ==
    <<Name("b"), Name("c"), Name("d"), Name("e"), Name("f"), Name("g"), Name("h")>>
ColumnNames ==
    <<Name("c1"), Name("c2"), Name("c3"), Name("c4"), Name("c5"), Name("c6"),
      Name("c7"), Name("c8")>>

SupplyShapes ==
    {"new_target_enhanced", "new_target_type_match", "new_target_weak_rule",
     "same_target_naming", "reverse"}

\* The next relationship of a resolved list: from table a to a table it does
\* not refer to yet (enhanced_pk_fk 0.9, data_type_match 0.4 or a custom
\* rule of confidence 0.1), from a to
\* the table it referred to last through another column (naming_convention
\* 0.6), or from table b back to a (foreign_key 0.8).  Every relationship
\* has a source column of its own, as conflict resolution guarantees.
Supplied(shape) ==
    LET a == Name("a")
        b == Name("b")
        mine == GroupOf(unique_relationships, a)
        column(t) == ColumnNames[Len(GroupOf(unique_relationships, t)) + 1]
        fresh == FreshTables[Cardinality({mine[i].target_table : i \in DOMAIN mine}) + 1]
    IN  CASE shape = "new_target_enhanced" ->
               Relationship(a, column(a), fresh, Name("id"), "many_to_one",
                            9, "enhanced_pk_fk", FALSE)
          [] shape = "new_target_type_match" ->
               Relationship(a, column(a), fresh, Name("id"), "many_to_one",
                            4, "data_type_match", FALSE)
          [] shape = "new_target_weak_rule" ->
               Relationship(a, column(a), fresh, Name("id"), "one_to_one",
                            1, "custom_rules", TRUE)
          [] shape = "same_target_naming" ->
               Relationship(a, column(a), mine[Len(mine)].target_table, Name("id"),
                            "many_to_one", 6, "naming_convention", FALSE)
          [] shape = "reverse" ->
               Relationship(b, column(b), a, Name("id"), "many_to_one",
                            8, "foreign_key", FALSE)

InitFilter ==
    /\ all_relationships = <<>>
    /\ unique_relationships = <<>>
    /\ filtered = <<>>
    /\ max_rels = MaxRelsPerTable
    /\ stage = "resolved"

\* The caller's list grows by one relationship.
Supply(shape) ==
    /\ stage = "resolved"
    /\ Len(unique_relationships) < MaxRelationships
    /\ shape = "same_target_naming" => GroupOf(unique_relationships, Name("a")) # <<>>
    /\ unique_relationships' = Append(unique_relationships, Supplied(shape))
    /\ UNCHANGED <<all_relationships, filtered, max_rels, stage>>

\* Values of filtering_rules["max_relationships_per_table"] and
\* ["preferred_detection_methods"]
MaxRelsChoices == {1, 2, MaxRelsPerTable}
PreferredChoices == {{}, PreferredMethods}

\* enhanced_relationship_detector.py line 90
EnhancedFilter(max_rels_per_table, preferred_methods) ==
    /\ stage = "resolved"
    /\ filtered' = enhanced_filter_relationships(unique_relationships,
                        max_rels_per_table, DefaultMinConfidence, preferred_methods)
    /\ max_rels' = max_rels_per_table
    /\ stage' = "enhanced_filtered"
    /\ UNCHANGED <<all_relationships, unique_relationships>>

NextFilter ==
    /\ \/ \E shape \in SupplyShapes : Supply(shape)
       \/ Filter
       \/ \E n \in MaxRelsChoices, p \in PreferredChoices : EnhancedFilter(n, p)
    /\ UNCHANGED <<cacheVars, incrementalVars, parallelVars, schemaVars, data_test, grouping, enhancedVars>>

StartFilter == InitFilter /\ InitCache /\ InitIncremental /\ InitParallel /\ InitSchema /\ InitTester

SpecFilter == StartFilter /\ [][NextFilter]_vars

(***************************************************************************)
(* Filtering: claims C5, C6 (under SpecFilter)                             *)
(***************************************************************************)
\* C5 as stated: after _filter_relationships no two relationships connect
\* the same unordered pair of tables.
C5_UnorderedPairOnce ==
    stage = "filtered" =>
        \A i, j \in DOMAIN filtered :
            i # j => {filtered[i].source_table, filtered[i].target_table}
                        # {filtered[j].source_table, filtered[j].target_table}

\* C5 amended: after _filter_relationships no two relationships have the
\* same source table and the same target table; of the relationships that
\* pass the per-table selection, exactly the first of every (source, target)
\* pair is kept.
C5_OrderedPairOnce ==
    stage = "filtered" =>
        LET selected == FilterTables(SourceTables(unique_relationships),
                                     unique_relationships)
            SamePair(r1, r2) == /\ r1.source_table = r2.source_table
                                /\ r1.target_table = r2.target_table
            FirstOfPair(k) == \A m \in 1..(k - 1) : ~SamePair(selected[m], selected[k])
        IN  /\ \A i, j \in DOMAIN filtered :
                 i # j => ~SamePair(filtered[i], filtered[j])
            /\ Range(filtered) = {selected[k] : k \in {m \in DOMAIN selected : FirstOfPair(m)}}

\* Two relationships a -> b through different columns were given, one of
\* them survives, and so does a relationship b -> a.
C5_Witness ==
    /\ stage = "filtered"
    /\ \E i, j \in DOMAIN unique_relationships :
          /\ i # j
          /\ unique_relationships[i].source_table = Name("a")
          /\ unique_relationships[j].source_table = Name("a")
          /\ unique_relationships[i].target_table = Name("b")
          /\ unique_relationships[j].target_table = Name("b")
    /\ \E i, j \in DOMAIN filtered :
          /\ filtered[i].source_table = Name("a") /\ filtered[i].target_table = Name("b")
          /\ filtered[j].source_table = Name("b") /\ filtered[j].target_table = Name("a")

CountFrom(rels, table) == Len(GroupOf(rels, table))

\* C6: after either filter, no table is the source of more relationships
\* than the per-table maximum the filter ran with.
C6_FanOutCap ==
    stage \in {"filtered", "enhanced_filtered"} =>
        \A i \in DOMAIN filtered :
            CountFrom(filtered, filtered[i].source_table) <= max_rels

\* Six relationships from table a to six tables, at most one of them above
\* 0.5, so that the backfill ran: the filter kept no more than five.
C6_Witness ==
    /\ stage = "filtered"
    /\ CountFrom(unique_relationships, Name("a")) >= MaxRelsPerTable + 1
    /\ Cardinality({r \in Range(unique_relationships) : r.confidence >= 5}) <= 1
    /\ CountFrom(filtered, Name("a")) = MinMeaningful

(***************************************************************************)
(* relationship_cache.py: RelationshipCache                                *)
(***************************************************************************)
\* The tokens of the table names, in the order Python's str comparison
\* gives them.  "_" sorts before every lower-case letter, so comparing two
\* names token by token is comparing their strings.
Alphabet == <<"a", "b", "c">>
TokenRank(token) == CHOOSE i \in DOMAIN Alphabet : Alphabet[i] = token

RECURSIVE NameLessEq(_, _)
NameLessEq(name1, name2) ==
    IF name1 = <<>> THEN TRUE
    ELSE IF name2 = <<>> THEN FALSE
    ELSE IF Head(name1) = Head(name2) THEN NameLessEq(Tail(name1), Tail(name2))
    ELSE TokenRank(Head(name1)) < TokenRank(Head(name2))

\* lines 30-34: sorted([table1, table2]) joined by "_"
get_cache_key(table1, table2) ==
    IF NameLessEq(table1, table2) THEN table1 \o table2 ELSE table2 \o table1

\* line 28
cache_ttl_hours == 24

\* lines 98-114: age_hours < cache_ttl_hours, on the file's mtime
is_cache_valid(cache_file, current_time) ==
    current_time - cache_file.mtime < cache_ttl_hours

\* line 59: Relationship(**data) raises unless the fields validate
Validates(data) ==
    /\ data.relationship_type \in RelationshipType
    /\ data.confidence >= 0 /\ data.confidence <= 10

\* lines 36-67: the result, the memory cache afterwards, and the time at
\* which the returned entry was written
get_cached_relationship(memory, disk, stamps, current_time, table1, table2) ==
    LET cache_key == get_cache_key(table1, table2)
        miss == [result |-> None, memory |-> memory, stamps |-> stamps]
    IN  IF cache_key \in DOMAIN memory
        THEN [result |-> Some(memory[cache_key]), memory |-> memory, stamps |-> stamps]
        ELSE IF cache_key \in DOMAIN disk /\ is_cache_valid(disk[cache_key], current_time)
        THEN IF Validates(disk[cache_key].data)
             THEN [result |-> Some(disk[cache_key].data),
                   memory |-> Put(memory, cache_key, disk[cache_key].data),
                   stamps |-> Put(stamps, cache_key, disk[cache_key].mtime)]
             ELSE miss
        ELSE miss

\* lines 69-96: the memory cache, the files and the write times afterwards
cache_relationship(memory, disk, stamps, current_time, relationship) ==
    LET cache_key == get_cache_key(relationship.source_table, relationship.target_table)
    IN  [memory |-> Put(memory, cache_key, relationship),
         disk |-> Put(disk, cache_key, [data |-> relationship, mtime |-> current_time]),
         stamps |-> Put(stamps, cache_key, current_time)]

\* The characters of a token of the table names of the model; a token that
\* is not listed is one character long.
Spelling(token) ==
    CASE token = "dim" -> <<"d", "i", "m">>
      [] token = "fact" -> <<"f", "a", "c", "t">>
      [] token = "sale" -> <<"s", "a", "l", "e">>
      [] token = "sales" -> <<"s", "a", "l", "e", "s">>
      [] token = "customer" -> <<"c", "u", "s", "t", "o", "m", "e", "r">>
      [] token = "customers" -> <<"c", "u", "s", "t", "o", "m", "e", "r", "s">>
      [] token = "id" -> <<"i", "d">>
      [] OTHER -> <<token>>

\* The string a name stands for, character by character: its tokens joined
\* by "_"
RECURSIVE Str(_)
Str(name) ==
    IF name = <<>> THEN <<>>
    ELSE IF Len(name) = 1 THEN Spelling(name[1])
    ELSE Spelling(Head(name)) \o <<"_">> \o Str(Tail(name))

\* pattern in text, on strings
Contains(text, pattern) ==
    \E i \in 0..(Len(text) - Len(pattern)) :
        SubSeq(text, i + 1, i + Len(pattern)) = pattern

\* line 126: table_pattern in key, Python's substring test.  The pattern is
\* a string of characters and may begin or end inside a table name.
PatternInKey(table_pattern, key) == Contains(Str(key), table_pattern)

\* Relationships between tables a_b and c, a and b_c, a and b: the first two
\* pairs have the cache key a_b_c.  The last one carries the kind the data
\* validation pass writes (enhanced_relationship_detector.py line 188).
CacheRelationships ==
    { Relationship(<<"a", "b">>, Name("c1"), <<"c">>, Name("id"), "many_to_one",
                   9, "enhanced_pk_fk", FALSE),
      Relationship(<<"c">>, Name("c1"), <<"a", "b">>, Name("id"), "many_to_one",
                   8, "foreign_key", FALSE),
      Relationship(<<"a">>, Name("c1"), <<"b", "c">>, Name("id"), "many_to_one",
                   8, "foreign_key", FALSE),
      Relationship(<<"a">>, Name("c1"), <<"b">>, Name("id"), "many_to_one_data_validated",
                   10, "enhanced_pk_fk", FALSE) }

LookupArguments ==
    UNION {{<<r.source_table, r.target_table>>, <<r.target_table, r.source_table>>} :
            r \in CacheRelationships}

\* None, "a", "c" and "b_"
ClearPatterns == {None, <<"a">>, <<"c">>, <<"b", "_">>}

MaxHours == 36

\* lines 69-96
CacheRelationship(relationship) ==
    LET cached == cache_relationship(memory_cache, disk_cache, stamp, now, relationship)
    IN  /\ memory_cache' = cached.memory
        /\ disk_cache' = cached.disk
        /\ stamp' = cached.stamps
        /\ written' = Put(written, {relationship.source_table, relationship.target_table},
                          relationship)
        /\ lookup' = None
        /\ UNCHANGED now

\* lines 36-67
GetCachedRelationship(table1, table2) ==
    LET got == get_cached_relationship(memory_cache, disk_cache, stamp, now, table1, table2)
        cache_key == get_cache_key(table1, table2)
    IN  /\ memory_cache' = got.memory
        /\ stamp' = got.stamps
        /\ lookup' = Some([table1 |-> table1, table2 |-> table2, result |-> got.result,
                           age |-> IF got.result = None THEN 0
                                   ELSE now - got.stamps[cache_key]])
        /\ UNCHANGED <<disk_cache, now, written>>

\* lines 116-140 (an empty pattern is false, like None)
ClearCache(table_pattern) ==
    /\ IF table_pattern # None
       THEN LET keys_to_remove == {key \in DOMAIN memory_cache :
                                      PatternInKey(table_pattern, key)}
            IN  /\ memory_cache' = Without(memory_cache, keys_to_remove)
                /\ disk_cache' = Without(disk_cache, keys_to_remove)
                /\ stamp' = Without(stamp, keys_to_remove)
       ELSE /\ memory_cache' = EmptyMap
            /\ disk_cache' = EmptyMap
            /\ stamp' = EmptyMap
    /\ written' = EmptyMap
    /\ lookup' = None
    /\ UNCHANGED now

\* time.time() advances by half a day
Tick ==
    /\ now < MaxHours
    /\ now' = now + 12
    /\ lookup' = None
    /\ UNCHANGED <<memory_cache, disk_cache, stamp, written>>

\* lines 18-28: a new RelationshipCache on the same cache_dir
NewCache ==
    /\ memory_cache' = EmptyMap
    /\ stamp' = EmptyMap
    /\ written' = EmptyMap
    /\ lookup' = None
    /\ UNCHANGED <<disk_cache, now>>

NextCache ==
    /\ \/ \E r \in CacheRelationships : CacheRelationship(r)
       \/ \E args \in LookupArguments : GetCachedRelationship(args[1], args[2])
       \/ \E pattern \in ClearPatterns : ClearCache(pattern)
       \/ Tick
       \/ NewCache
    /\ UNCHANGED <<detectorVars, incrementalVars, parallelVars, schemaVars, data_test, grouping, enhancedVars>>

StartCache == InitDetector /\ InitCache /\ InitIncremental /\ InitParallel /\ InitSchema /\ InitTester

SpecCache == StartCache /\ [][NextCache]_vars

(***************************************************************************)
(* The cache: claims C9, C10 (under SpecCache)                             *)
(***************************************************************************)
\* C9: get_cached_relationship never returns an entry older than the
\* time-to-live, be it held in memory or only on disk.
C9_NoStaleEntry ==
    (lookup # None /\ lookup[1].result # None) => lookup[1].age < cache_ttl_hours

\* C10: a lookup for a table pair, in either argument order, returns the
\* relationship this cache object cached last for that pair, as long as
\* nothing was cleared since.
C10_RoundTrip ==
    (lookup # None /\ {lookup[1].table1, lookup[1].table2} \in DOMAIN written)
        => lookup[1].result = Some(written[{lookup[1].table1, lookup[1].table2}])

(***************************************************************************)
(* incremental_processor.py: IncrementalProcessor                          *)
(***************************************************************************)
\* models.py lines 54-66: TableSchema, with the fields the pipeline reads
TableSchema(table_id, dataset_id, project_id, columns) ==
    [table_id |-> table_id, dataset_id |-> dataset_id, project_id |-> project_id,
     columns |-> columns]

\* The tables of project p, dataset d
DefaultTable(table_id, columns) == TableSchema(table_id, "d", "p", columns)

\* sorted(columns_info) as a multiset: how often each description occurs
Counted(descriptions) ==
    [d \in Range(descriptions) |->
        Cardinality({i \in DOMAIN descriptions : descriptions[i] = d})]

\* a mutation of get_table_checksum: the digest covers the column names only
NamesChecksum(table) ==
    [table_id |-> table.table_id, project_id |-> table.project_id,
     dataset_id |-> table.dataset_id,
     columns |-> Counted([i \in DOMAIN table.columns |->
                            [name |-> table.columns[i].name]])]

\* lines 79-100: the digest of table_id:project_id:dataset_id and the sorted
\* list of the column descriptions name:type:mode:pk:fk; two tables have the
\* same checksum when these are the same (collisions of the digest are left
\* out)
get_table_checksum(table) ==
    [table_id |-> table.table_id, project_id |-> table.project_id,
     dataset_id |-> table.dataset_id,
     columns |-> Counted([i \in DOMAIN table.columns |->
                    [name |-> table.columns[i].name,
                     data_type |-> table.columns[i].data_type,
                     mode |-> table.columns[i].mode,
                     is_primary_key |-> table.columns[i].is_primary_key,
                     is_foreign_key |-> table.columns[i].is_foreign_key]])]

\* lines 102-114: stored_checksum is None for a table without one
is_table_changed(table, checksums) ==
    \/ table.table_id \notin DOMAIN checksums
    \/ get_table_checksum(table) # checksums[table.table_id]

\* lines 116-136
get_tables_to_process(all_tables, processed, checksums) ==
    LET NeedsProcessing(table) ==
            \/ table.table_id \notin processed
            \/ is_table_changed(table, checksums)
    IN  SelectSeq(all_tables, NeedsProcessing)

\* lines 149-158: relationship_graph[table_name] = relationships; a new key
\* goes to the end of the dict, a known key keeps its place
update_table_relationships(graph, table_name, relationships) ==
    IF \E i \in DOMAIN graph : graph[i].table = table_name
    THEN [i \in DOMAIN graph |->
            IF graph[i].table = table_name
            THEN [table |-> table_name, relationships |-> relationships]
            ELSE graph[i]]
    ELSE Append(graph, [table |-> table_name, relationships |-> relationships])

\* lines 171-180: the lists of all tables, one after the other
RECURSIVE get_all_relationships(_)
get_all_relationships(graph) ==
    IF graph = <<>> THEN <<>>
    ELSE Head(graph).relationships \o get_all_relationships(Tail(graph))

\* lines 54-63: the document save_state writes, a JSON object
StateDocument(processed, graph, checksums) ==
    [json |-> "object", processed_tables |-> processed, relationship_graph |-> graph,
     table_checksums |-> checksums]

\* lines 72-77
EmptyState == StateDocument({}, <<>>, EmptyMap)

\* a file json.load cannot parse ("truncated") or parses to something that
\* is not an object ("array"): line 36 or line 37 raises
Unparsable(form) == [EmptyState EXCEPT !.json = form]

\* the graph without the lists of the tables removed (lines 217-218)
RECURSIVE DropTables(_, _)
DropTables(graph, tables_to_remove) ==
    IF graph = <<>> THEN <<>>
    ELSE IF Head(graph).table \in tables_to_remove
         THEN DropTables(Tail(graph), tables_to_remove)
         ELSE <<Head(graph)>> \o DropTables(Tail(graph), tables_to_remove)

\* clear_state, lines 206-228 (an empty pattern is false, like None): the
\* fields afterwards
clear_state(processed, graph, checksums, table_pattern) ==
    LET tables_to_remove ==
            IF table_pattern # None
            THEN {t \in processed : PatternInKey(table_pattern, t)}
            ELSE processed
    IN  StateDocument(processed \ tables_to_remove,
                      IF table_pattern # None THEN DropTables(graph, tables_to_remove)
                      ELSE <<>>,
                      IF table_pattern # None THEN Without(checksums, tables_to_remove)
                      ELSE EmptyMap)

\* the value of table_checksums after state.get("table_checksums", {}) found
\* a JSON null under the key (line 42): Python's None, which is not a dict
NullChecksums ==
    [k \in {<<"null">>} |-> get_table_checksum(DefaultTable(<<"null">>, <<>>))]

\* lines 31-49: the state after load_state; a file that cannot be parsed,
\* or a stored relationship that Relationship(**rel) rejects, makes the
\* load fall back to the empty state; the fields are taken as they are
\* found otherwise
load_state(file) ==
    IF file = None THEN EmptyState
    ELSE LET state == file[1]
         IN  IF /\ state.json = "object"
                /\ \A i \in DOMAIN state.relationship_graph :
                    \A j \in DOMAIN state.relationship_graph[i].relationships :
                        Validates(state.relationship_graph[i].relationships[j])
             THEN state
             ELSE EmptyState

\* ---------------------------------------------------------------------------
\* The generators of RelationshipDetector on column metadata
\* (relationship_detector.py), and the custom rules.  Names are lower-case.
\* ---------------------------------------------------------------------------

TableIdsOf(table_list) == {table_list[i].table_id : i \in DOMAIN table_list}

ColumnInfo(name, data_type, mode, is_primary_key, is_foreign_key) ==
    [name |-> name, data_type |-> data_type, mode |-> mode,
     is_primary_key |-> is_primary_key, is_foreign_key |-> is_foreign_key]

RECURSIVE Flatten(_)
Flatten(lists) == IF lists = <<>> THEN <<>> ELSE Head(lists) \o Flatten(Tail(lists))

\* a or b: the first of two optionals that holds a value
OrElse(a, b) == IF a # None THEN a ELSE b

\* name + suffix for the suffixes 's' and 'es', and name.rstrip('s') for the
\* suffix '' (line 300): the last token changes; a word outside the
\* vocabulary is no table's name and is written "?".  rstrip leaves a name
\* that does not end in 's' as it is, and takes every trailing 's' off one
\* that does: 'fact_s' becomes 'fact_'.
Respell(name, suffix) ==
    LET last == name[Len(name)]
        ends_in_s == Spelling(last)[Len(Spelling(last))] = "s"
    IN  SubSeq(name, 1, Len(name) - 1) \o
            << CASE suffix = "s" /\ last = "customer" -> "customers"
                 [] suffix = "s" /\ last = "sale" -> "sales"
                 [] suffix = "" /\ last = "customers" -> "customer"
                 [] suffix = "" /\ last = "sales" -> "sale"
                 [] suffix = "" /\ ~ends_in_s -> last
                 [] OTHER -> "?" >>

\* a match of ^(.+)_<suffix>$
EndsWith(name, suffix) == Len(name) >= 2 /\ name[Len(name)] = suffix

\* re.sub(r'_(id|key|fk|pk)$', '', column_name)
BaseName(column_name) ==
    IF \E suffix \in {"id", "key", "fk", "pk"} : EndsWith(column_name, suffix)
    THEN SubSeq(column_name, 1, Len(column_name) - 1) ELSE column_name

\* the first of the names that is a key of table_map, as an optional
FirstKnown(names, table_map) ==
    IF \A i \in DOMAIN names : names[i] \notin table_map THEN None
    ELSE Some(names[CHOOSE i \in DOMAIN names :
                /\ names[i] \in table_map
                /\ \A j \in 1..(i - 1) : names[j] \notin table_map])

\* table_map[table_id]
TableOf(tables, table_id) ==
    tables[CHOOSE i \in DOMAIN tables :
              /\ tables[i].table_id = table_id
              /\ \A j \in DOMAIN tables : tables[j].table_id = table_id => j <= i]

\* _find_target_table_by_name
find_target_table_by_name(column_name, table_map) ==
    LET Targets(group) ==
            (IF EndsWith(column_name, "id") THEN <<Respell(group, "s"), group>> ELSE <<>>)
            \o (IF EndsWith(column_name, "key") THEN <<Respell(group, "s")>> ELSE <<>>)
            \o (IF EndsWith(column_name, "fk") THEN <<Respell(group, "s")>> ELSE <<>>)
    IN  IF Len(column_name) < 2 THEN None
        ELSE FirstKnown(Targets(SubSeq(column_name, 1, Len(column_name) - 1)), table_map)

\* _find_best_target_column
find_best_target_column(target_table, source_column) ==
    LET IsPk(column) == column.is_primary_key
        SameType(column) == column.data_type = source_column.data_type
        Score(column) ==
            (IF column.name \in {<<"id">>, <<"key">>, <<"pk">>} THEN 10 ELSE 0)
            + (IF column.mode = "REQUIRED" THEN 5 ELSE 0)
        Pick(primary_keys, candidates) ==
            IF primary_keys # <<>> THEN Some(primary_keys[1])
            ELSE IF candidates = <<>> THEN None
            ELSE Some(candidates[CHOOSE i \in DOMAIN candidates :
                        \A j \in DOMAIN candidates :
                            /\ Score(candidates[j]) <= Score(candidates[i])
                            /\ j < i => Score(candidates[j]) < Score(candidates[i])])
    IN  Pick(SelectSeq(target_table.columns, IsPk), SelectSeq(target_table.columns, SameType))

\* the relationships a generator emits, table by table and column by column
PerColumn(tables, Emit(_, _)) ==
    Flatten([i \in DOMAIN tables |->
        Flatten([j \in DOMAIN tables[i].columns |->
            Emit(tables[i], tables[i].columns[j])])])

\* the Relationship a generator builds once it holds a target column
Emitted(table, column, target_table_id, target_column, confidence, method) ==
    IF target_column = None THEN <<>>
    ELSE <<Relationship(table.table_id, column.name, target_table_id,
                        target_column[1].name, "many_to_one", confidence, method, FALSE)>>

\* _detect_foreign_keys with _find_foreign_key_target
detect_foreign_keys(tables) ==
    LET FromTarget(table, column, target) ==
            IF target = None THEN <<>>
            ELSE Emitted(table, column, target[1],
                         find_best_target_column(TableOf(tables, target[1]), column),
                         8, "foreign_key")
        Emit(table, column) ==
            IF ~column.is_foreign_key THEN <<>>
            ELSE FromTarget(table, column,
                            find_target_table_by_name(column.name, TableIdsOf(tables)))
    IN  PerColumn(tables, Emit)

\* _detect_naming_conventions: the pattern list holds the same pattern three
\* times, so a match is emitted three times
detect_naming_conventions(tables) ==
    LET Thrice(found) == found \o found \o found
        FromName(table, column, target_table_name) ==
            IF target_table_name \notin TableIdsOf(tables) THEN <<>>
            ELSE Emitted(table, column, target_table_name,
                         find_best_target_column(TableOf(tables, target_table_name), column),
                         6, "naming_convention")
        Emit(table, column) ==
            IF column.is_foreign_key \/ ~EndsWith(column.name, "id") THEN <<>>
            ELSE Thrice(FromName(table, column,
                    Respell(SubSeq(column.name, 1, Len(column.name) - 1), "s")))
    IN  PerColumn(tables, Emit)

\* str.replace(token + '_', ''): the token is dropped wherever an underscore
\* follows it
RECURSIVE Dropped(_, _)
Dropped(name, token) ==
    IF Len(name) < 2 THEN name
    ELSE IF Head(name) = token THEN Dropped(Tail(name), token)
    ELSE <<Head(name)>> \o Dropped(Tail(name), token)

\* _is_likely_primary_key: the pattern list, then the names derived from the
\* table name with every 'dim_' and 'fact_' removed
is_likely_primary_key(column_name, table_name) ==
    \/ column_name = <<"id">>
    \/ \E suffix \in {"id", "key", "pk", "code", "number"} : EndsWith(column_name, suffix)
    \/ Len(column_name) >= 2 /\ Head(column_name) = "pk"
    \/ /\ Len(column_name) >= 2
       /\ column_name[Len(column_name)] \in {"id", "key"}
       /\ SubSeq(column_name, 1, Len(column_name) - 1)
            = Dropped(Dropped(table_name, "dim"), "fact")

\* pk_map[table.table_id] of _detect_enhanced_pk_fk_relationships, with
\* _is_common_primary_key
PrimaryKeysOf(table) ==
    LET Likely(column) ==
            column.is_primary_key \/ is_likely_primary_key(column.name, table.table_id)
        Common(column) ==
            column.name \in {<<"id">>, <<"key">>, <<"pk">>, <<"code">>,
                             <<"number">>, <<"identifier">>}
        OrCommon(primary_keys) ==
            IF primary_keys # <<>> THEN primary_keys ELSE SelectSeq(table.columns, Common)
    IN  OrCommon(SelectSeq(table.columns, Likely))

\* _find_best_primary_key
find_best_primary_key(primary_keys) ==
    LET Explicit(pk) == pk.is_primary_key
        IsId(pk) == pk.name = <<"id">>
        Pick(explicit_pks, id_columns) ==
            IF primary_keys = <<>> THEN None
            ELSE IF explicit_pks # <<>> THEN Some(explicit_pks[1])
            ELSE IF id_columns # <<>> THEN Some(id_columns[1])
            ELSE Some(primary_keys[1])
    IN  Pick(SelectSeq(primary_keys, Explicit), SelectSeq(primary_keys, IsId))

\* _are_columns_compatible
are_columns_compatible(col1, col2) ==
    /\ col1.data_type = col2.data_type
    /\ ~(col1.mode # col2.mode /\ ~(col1.mode = "NULLABLE" /\ col2.mode = "NULLABLE"))

\* a candidate name, then the candidate behind each of the prefixes
Prefixed(name) ==
    <<name, <<"dim">> \o name, <<"fact">> \o name, <<"tbl">> \o name, <<"table">> \o name>>

\* _find_target_by_direct_name
find_target_by_direct_name(column_name, table_map) ==
    FirstKnown(Prefixed(BaseName(column_name)), table_map)

\* _find_target_by_pattern
find_target_by_pattern(column_name, table_map) ==
    LET Candidates4(base_name) ==
            Prefixed(base_name) \o Prefixed(Respell(base_name, "s"))
            \o Prefixed(Respell(base_name, "es")) \o Prefixed(Respell(base_name, ""))
    IN  FirstKnown(Candidates4(BaseName(column_name)), table_map)

\* _find_enhanced_target: an optional <<target table id, target column>>
find_enhanced_target(source_table, source_column, tables) ==
    LET Checked(table_id, target_column) ==
            IF target_column # None
               /\ are_columns_compatible(source_column, target_column[1])
            THEN Some(<<table_id, target_column[1]>>) ELSE None
        Strategy(target) ==
            IF target = None THEN None
            ELSE Checked(target[1],
                    find_best_primary_key(PrimaryKeysOf(TableOf(tables, target[1]))))
        \* strategy 3: the first compatible primary key of another table, in
        \* the insertion order of pk_map
        IsCompatible(pk) == are_columns_compatible(source_column, pk)
        Compatible(i) ==
            IF tables[i].table_id = source_table.table_id THEN <<>>
            ELSE SelectSeq(PrimaryKeysOf(TableOf(tables, tables[i].table_id)), IsCompatible)
        FirstWith(compatible) ==
            IF \A i \in DOMAIN compatible : compatible[i] = <<>> THEN None
            ELSE LET i == CHOOSE i \in DOMAIN compatible :
                            /\ compatible[i] # <<>>
                            /\ \A j \in 1..(i - 1) : compatible[j] = <<>>
                 IN  Some(<<tables[i].table_id, compatible[i][1]>>)
    IN  OrElse(Strategy(find_target_by_direct_name(source_column.name, TableIdsOf(tables))),
               OrElse(Strategy(find_target_by_pattern(source_column.name, TableIdsOf(tables))),
                      FirstWith([i \in DOMAIN tables |-> Compatible(i)])))

\* _detect_enhanced_pk_fk_relationships
detect_enhanced_pk_fk_relationships(tables) ==
    LET FromTarget(table, column, target_info) ==
            IF target_info = None THEN <<>>
            ELSE Emitted(table, column, target_info[1][1], Some(target_info[1][2]),
                         9, "enhanced_pk_fk")
        Emit(table, column) ==
            IF column.is_foreign_key THEN <<>>
            ELSE FromTarget(table, column, find_enhanced_target(table, column, tables))
    IN  PerColumn(tables, Emit)

\* _is_potential_relationship: "yes", "no" or "raises".  re.match(pattern2, ...)
\* is evaluated only when pattern1 matched the other name; the second
\* patterns '\1_id$' and '\1_key$' refer to a group they do not have, so
\* compiling them raises re.error
is_potential_relationship(col1, col2) ==
    LET \* the outcome of one (pattern1, pattern2) pair: pattern1 matches a
        \* name that ends in _<suffix>, or is exactly <suffix>
        Try(suffix, exact) ==
            LET First(name) == IF exact THEN name = <<suffix>> ELSE EndsWith(name, suffix)
            IN  IF First(col1.name)
                THEN (IF exact THEN (IF EndsWith(col2.name, suffix) THEN "yes" ELSE "no")
                      ELSE "raises")
                ELSE IF First(col2.name)
                THEN (IF exact THEN (IF EndsWith(col1.name, suffix) THEN "yes" ELSE "no")
                      ELSE "raises")
                ELSE "no"
        FirstDecided(tries) ==
            IF \A i \in DOMAIN tries : tries[i] = "no" THEN "no"
            ELSE tries[CHOOSE i \in DOMAIN tries :
                        tries[i] # "no" /\ \A j \in 1..(i - 1) : tries[j] = "no"]
    IN  IF col1.data_type # col2.data_type THEN "no"
        ELSE IF col1.mode = "NULLABLE" /\ col2.mode = "NULLABLE" THEN "no"
        ELSE FirstDecided(<<Try("id", FALSE), Try("key", FALSE),
                            Try("id", TRUE), Try("key", TRUE)>>)

\* _detect_data_type_matches: [raised, relationships].  The non-PK columns
\* are grouped by data type in order of first appearance, and every pair of a
\* group is examined in list order.
detect_data_type_matches(tables) ==
    LET IsCandidate(entry) == ~entry.column.is_primary_key
        Examine(entries) ==
            LET FirstOfType(k) ==
                    \A m \in 1..(k - 1) :
                        entries[m].column.data_type # entries[k].column.data_type
                \* "skip" for a pair the loop does not examine
                Verdict(a, b) ==
                    IF /\ a < b
                       /\ entries[a].column.data_type = entries[b].column.data_type
                       /\ entries[a].table.table_id # entries[b].table.table_id
                    THEN is_potential_relationship(entries[a].column, entries[b].column)
                    ELSE "skip"
                Pairs(verdicts) ==
                    [raised |-> \E a, b \in DOMAIN entries : verdicts[a][b] = "raises",
                     relationships |->
                        Flatten([k \in DOMAIN entries |->
                            IF ~FirstOfType(k) THEN <<>>
                            ELSE Flatten([a \in DOMAIN entries |->
                                IF entries[a].column.data_type # entries[k].column.data_type
                                THEN <<>>
                                ELSE Flatten([b \in DOMAIN entries |->
                                    IF verdicts[a][b] # "yes" THEN <<>>
                                    ELSE Emitted(entries[a].table, entries[a].column,
                                                 entries[b].table.table_id,
                                                 Some(entries[b].column),
                                                 4, "data_type_match")])])])]
            IN  Pairs([a \in DOMAIN entries |-> [b \in DOMAIN entries |-> Verdict(a, b)]])
    IN  Examine(SelectSeq(
            Flatten([i \in DOMAIN tables |->
                [j \in DOMAIN tables[i].columns |->
                    [table |-> tables[i], column |-> tables[i].columns[j]]]]),
            IsCandidate))

\* models.py lines 153-160
CustomRelationshipRule(source_table, source_column, target_table, target_column, relationship_type, confidence) ==
    [source_table |-> source_table, source_column |-> source_column,
     target_table |-> target_table, target_column |-> target_column,
     relationship_type |-> relationship_type, confidence |-> confidence]

\* models.py lines 163-167; pattern is one of the regular expressions of
\* PatternMatch
NamingPattern(pattern, target_suffix, confidence) ==
    [pattern |-> pattern, target_suffix |-> target_suffix, confidence |-> confidence]

\* models.py lines 170-173
CustomRulesConfig(relationships, naming_patterns) ==
    [relationships |-> relationships, naming_patterns |-> naming_patterns]

\* _find_column_by_name, lines 700-713: the first column with the name
find_column_by_name(table, column_name) ==
    LET found == {i \in DOMAIN table.columns : table.columns[i].name = column_name}
    IN  IF found = {} THEN None
        ELSE Some(table.columns[CHOOSE i \in found : \A j \in found : i <= j])

\* lines 672-680: pattern.match(column.name) and base_name, None when the
\* name does not match.  base_name is group(1) for the pattern with a
\* group and the column name for the pattern without one.
PatternMatch(pattern, column_name) ==
    CASE pattern = "^(.+)_id$" ->
            IF EndsWith(column_name, "id")
            THEN Some(SubSeq(column_name, 1, Len(column_name) - 1)) ELSE None
      [] pattern = ".+_id" ->
            IF \E i \in 2..Len(column_name) : column_name[i] = "id"
            THEN Some(column_name) ELSE None

\* line 681: base_name + pattern_rule.target_suffix for the suffixes '' and
\* 's'
Suffixed(base_name, target_suffix) ==
    IF target_suffix = "" THEN base_name ELSE Respell(base_name, target_suffix)

\* _apply_naming_pattern, lines 658-698
apply_naming_pattern(pattern_rule, tables) ==
    LET FromName(table, column, target_table_name) ==
            IF target_table_name \notin TableIdsOf(tables) THEN <<>>
            ELSE Emitted(table, column, target_table_name,
                         find_best_target_column(TableOf(tables, target_table_name), column),
                         pattern_rule.confidence, "custom_naming_pattern")
        FromMatch(table, column, base_name) ==
            IF base_name = None THEN <<>>
            ELSE FromName(table, column,
                          Suffixed(base_name[1], pattern_rule.target_suffix))
        Emit(table, column) ==
            FromMatch(table, column, PatternMatch(pattern_rule.pattern, column.name))
    IN  PerColumn(tables, Emit)

\* _apply_custom_rules, lines 465-514: the explicit rules whose tables and
\* columns exist, then the naming patterns
apply_custom_rules(custom_rules, tables) ==
    LET Found(rule, source_column, target_column) ==
            IF source_column = None \/ target_column = None THEN <<>>
            ELSE <<Relationship(rule.source_table, source_column[1].name,
                                rule.target_table, target_column[1].name,
                                rule.relationship_type, rule.confidence,
                                "custom_rules", TRUE)>>
        Explicit(rule) ==
            IF rule.source_table \notin TableIdsOf(tables)
                    \/ rule.target_table \notin TableIdsOf(tables)
            THEN <<>>
            ELSE Found(rule,
                       find_column_by_name(TableOf(tables, rule.source_table),
                                           rule.source_column),
                       find_column_by_name(TableOf(tables, rule.target_table),
                                           rule.target_column))
    IN  Flatten([i \in DOMAIN custom_rules.relationships |->
                    Explicit(custom_rules.relationships[i])])
        \o Flatten([i \in DOMAIN custom_rules.naming_patterns |->
                    apply_naming_pattern(custom_rules.naming_patterns[i], tables)])

\* detect_relationships on column metadata, lines 36-83: [raised, emitted,
\* relationships]; emitted is all_relationships as the generators and the
\* custom rules (lines 71-74; custom_rules is None or holds a
\* CustomRulesConfig, which is true in a condition) have filled it
detect_relationships_on(tables, enable_fk_detection, enable_naming_convention_detection, custom_rules) ==
    LET Resolved(all_rels) ==
            [raised |-> FALSE, emitted |-> all_rels,
             relationships |->
                filter_relationships(resolve_relationship_conflicts(all_rels))]
        Finish(before, type_relationships) ==
            IF type_relationships.raised
            THEN [raised |-> TRUE, emitted |-> before, relationships |-> <<>>]
            ELSE Resolved(before \o type_relationships.relationships
                            \o (IF custom_rules = None THEN <<>>
                                ELSE apply_custom_rules(custom_rules[1], tables)))
    IN  Finish((IF enable_fk_detection THEN detect_foreign_keys(tables) ELSE <<>>)
                    \o (IF enable_naming_convention_detection
                        THEN detect_naming_conventions(tables) ELSE <<>>)
                    \o detect_enhanced_pk_fk_relationships(tables),
               detect_data_type_matches(tables))

(***************************************************************************)
(* parallel_processor.py: ParallelProcessor                                *)
(***************************************************************************)
\* ProcessingConfig.timeout_seconds
timeout_seconds == 300

\* ProcessingConfig.max_workers
max_workers == 2

\* str.lower() of a token: the prefixes of _get_table_type written with
\* capitals; every other token of the model is lower-case
Lower(token) ==
    CASE token \in {"H"} -> "h"
      [] token \in {"DIM", "Dim"} -> "dim"
      [] token \in {"L"} -> "l"
      [] token \in {"REF", "Ref"} -> "ref"
      [] token \in {"FACT", "Fact"} -> "fact"
      [] token \in {"BRIDGE", "Bridge"} -> "bridge"
      [] OTHER -> token

\* _get_table_type: the type is read from the first token of the lower-cased
\* name (line 154) when an underscore follows it
get_table_type(table_name) ==
    LET table_name_lower == [i \in DOMAIN table_name |-> Lower(table_name[i])]
    IN  IF Len(table_name_lower) < 2 THEN "other"
        ELSE CASE Head(table_name_lower) = "h" -> "data_vault_hub"
               [] Head(table_name_lower) = "dim" -> "data_vault_dimension"
               [] Head(table_name_lower) = "l" -> "data_vault_link"
               [] Head(table_name_lower) = "ref" -> "data_vault_reference"
               [] Head(table_name_lower) = "fact" -> "fact_table"
               [] Head(table_name_lower) = "bridge" -> "bridge_table"
               [] OTHER -> "other"

\* a mutation of the split on lines 107-110: the group is taken whole
Unsplit(group, batch_size) == IF group = <<>> THEN <<>> ELSE <<group>>

\* group[i:i + batch_size] for i in range(0, len(group), batch_size)
RECURSIVE Batches(_, _)
Batches(group, batch_size) ==
    IF group = <<>> THEN <<>>
    ELSE <<SubSeq(group, 1, Min(batch_size, Len(group)))>>
            \o Batches(SubSeq(group, batch_size + 1, Len(group)), batch_size)

\* the keys of the groups dict, in insertion order
RECURSIVE TypesInOrder(_, _)
TypesInOrder(tables, seen) ==
    IF tables = <<>> THEN seen
    ELSE LET t == get_table_type(Head(tables).table_id)
         IN  TypesInOrder(Tail(tables),
                 IF \E i \in DOMAIN seen : seen[i] = t THEN seen ELSE Append(seen, t))

RECURSIVE SplitGroups(_, _, _)
SplitGroups(tables, types, batch_size) ==
    IF types = <<>> THEN <<>>
    ELSE LET IsType(table) == get_table_type(table.table_id) = Head(types)
         IN  Batches(SelectSeq(tables, IsType), batch_size)
                \o SplitGroups(tables, Tail(types), batch_size)

\* _group_tables_by_type
group_tables_by_type(tables, batch_size) ==
    SplitGroups(tables, TypesInOrder(tables, <<>>), batch_size)

\* sorted(tables, key=lambda t: len(t.columns)): a stable insertion sort
RECURSIVE SortByColumnCount(_)
SortByColumnCount(tables) ==
    IF tables = <<>> THEN <<>>
    ELSE LET rest == SortByColumnCount(SubSeq(tables, 1, Len(tables) - 1))
             last == tables[Len(tables)]
             Before(t) == Len(t.columns) <= Len(last.columns)
             After(t) == Len(t.columns) > Len(last.columns)
         IN  SelectSeq(rest, Before) \o <<last>> \o SelectSeq(rest, After)

\* _group_tables_by_size
group_tables_by_size(tables, batch_size) ==
    Batches(SortByColumnCount(tables), batch_size)

(***************************************************************************)
(* The tables of the runs, and detect_relationships on them                *)
(***************************************************************************)
\* a column declared a foreign key
ForeignKeyColumn(name, mode) == ColumnInfo(name, "INTEGER", mode, FALSE, TRUE)

\* the tables handed to process_tables_parallel: dim_a, fact_s and x refer
\* to dim_b, fact_s to fact_t and dim_c to dim_a; dim_d and dim_e hold two
\* REQUIRED identifiers of one type, on which the data-type generator raises
ParallelColumns(table_id) ==
    CASE table_id \in {<<"dim", "a">>, <<"x">>} ->
            <<ForeignKeyColumn(<<"dim", "b", "id">>, "NULLABLE")>>
      [] table_id = <<"dim", "c">> ->
            <<ForeignKeyColumn(<<"dim", "a", "id">>, "NULLABLE")>>
      [] table_id = <<"fact", "s">> ->
            <<ForeignKeyColumn(<<"fact", "t", "id">>, "NULLABLE"),
              ForeignKeyColumn(<<"dim", "b", "id">>, "NULLABLE")>>
      [] table_id \in {<<"dim", "d">>, <<"dim", "e">>} ->
            <<ForeignKeyColumn(<<"dim", "b", "id">>, "REQUIRED")>>
      [] OTHER -> <<ColumnInfo(<<"id">>, "INTEGER", "REQUIRED", TRUE, FALSE)>>

ParallelTable(table_id) == DefaultTable(table_id, ParallelColumns(table_id))

ParallelTableLists ==
    { <<ParallelTable(<<"fact", "s">>), ParallelTable(<<"dim", "a">>),
        ParallelTable(<<"dim", "b">>), ParallelTable(<<"fact", "t">>),
        ParallelTable(<<"x">>)>>,
      <<ParallelTable(<<"dim", "a">>), ParallelTable(<<"dim", "b">>),
        ParallelTable(<<"dim", "c">>)>>,
      <<ParallelTable(<<"dim", "d">>), ParallelTable(<<"dim", "e">>),
        ParallelTable(<<"fact", "s">>), ParallelTable(<<"fact", "t">>)>>,
      <<ParallelTable(<<"x">>)>> }

\* config.batch_size in the calls on these lists
BatchSizes == {2, 3}

\* the lists and the groups process_func is called with in these calls
ParallelGroups ==
    ParallelTableLists \cup
        UNION {Range(group_tables_by_type(tables, batch_size))
                    \cup Range(group_tables_by_size(tables, batch_size)) :
                tables \in ParallelTableLists, batch_size \in BatchSizes}

\* The dataset of the runs of detect_relationships_enhanced
TableOrder == <<Name("a"), Name("b")>>

\* The column lists a table can have.  Table a has a column b_id, declared
\* a foreign key or not; table b has the primary key id, and in one version
\* a second identifier a_id.
Schemas(table_id) ==
    CASE table_id = Name("a") ->
            { <<>>,
              <<ColumnInfo(<<"b", "id">>, "INTEGER", "NULLABLE", FALSE, TRUE)>>,
              <<ColumnInfo(<<"b", "id">>, "INTEGER", "REQUIRED", FALSE, FALSE)>> }
      [] table_id = Name("b") ->
            { <<ColumnInfo(<<"id">>, "INTEGER", "REQUIRED", TRUE, FALSE)>>,
              <<ColumnInfo(<<"id">>, "INTEGER", "REQUIRED", TRUE, FALSE),
                ColumnInfo(<<"a", "id">>, "INTEGER", "REQUIRED", FALSE, FALSE)>> }
      [] OTHER -> { <<>> }

\* The tables argument of a run: every table of the dataset
TableList(schemas) ==
    [i \in DOMAIN TableOrder |-> DefaultTable(TableOrder[i], schemas[TableOrder[i]])]

\* the lists detect_relationships is called with in these runs: all tables,
\* or the one that is new or changed
EnhancedLists ==
    UNION {{<<DefaultTable(Name("a"), a)>>, <<DefaultTable(Name("b"), b)>>,
            <<DefaultTable(Name("a"), a), DefaultTable(Name("b"), b)>>} :
            a \in Schemas(Name("a")), b \in Schemas(Name("b"))}

\* The custom rules of the detectors of these runs: none, or a rule for
\* a.b_id -> b.id at confidence 1.0, a rule for b.id -> a.b_id at 0.3, a
\* rule for a table that does not exist and a naming pattern at 0.0
EnhancedCustomRules ==
    { None,
      Some(CustomRulesConfig(
            << CustomRelationshipRule(Name("a"), <<"b", "id">>, Name("b"), <<"id">>,
                                      "one_to_one", 10),
               CustomRelationshipRule(Name("b"), <<"id">>, Name("a"), <<"b", "id">>,
                                      "many_to_one", 3),
               CustomRelationshipRule(Name("a"), <<"b", "id">>, Name("c"), <<"id">>,
                                      "one_to_one", 10) >>,
            << NamingPattern("^(.+)_id$", "", 0) >>)) }

\* detect_relationships_on for each of these lists by a detector without
\* custom rules, evaluated once
Detections ==
    [table_list \in ParallelGroups \cup EnhancedLists |->
        detect_relationships_on(table_list, TRUE, TRUE, None)]

\* detect_relationships_on for each list of the runs by a detector with
\* custom rules, evaluated once
CustomDetections ==
    [args \in (EnhancedCustomRules \ {None}) \X EnhancedLists |->
        detect_relationships_on(args[2], TRUE, TRUE, args[1])]

\* detect_relationships(tables, enable_fk_detection=True,
\* enable_naming_convention_detection=True), as the enhanced detector calls
\* it (enhanced_relationship_detector.py lines 115-119, 131-135), on the
\* lists of the runs
detect_relationships(table_list) ==
    IF config.custom_rules = None THEN Detections[table_list]
    ELSE CustomDetections[<<config.custom_rules, table_list>>]

\* process_func as the enhanced detector passes it
\* (enhanced_relationship_detector.py lines 115-120)
process_func(table_group) == detect_relationships(table_group)

\* what a call process_func(group) does: it returns after `duration` seconds,
\* raises after `duration` seconds, or never comes back
TaskNatures ==
    { [raises |-> FALSE, terminates |-> TRUE, duration |-> 1],
      [raises |-> FALSE, terminates |-> TRUE, duration |-> timeout_seconds + 1],
      [raises |-> TRUE, terminates |-> TRUE, duration |-> 1],
      [raises |-> FALSE, terminates |-> FALSE, duration |-> 0] }

\* a call of process_func that comes back at once
Returning == [raises |-> FALSE, terminates |-> TRUE, duration |-> 1]

\* the call process_func(table_group) ends with an exception: one from
\* outside (nature) or one of the detection itself
Raises(table_group, nature) == nature.raises \/ process_func(table_group).raised

\* _process_group_with_timeout, lines 171-186: an exception of process_func
\* becomes []
process_group_with_timeout(table_group, nature) ==
    IF Raises(table_group, nature) THEN <<>>
    ELSE process_func(table_group).relationships


(***************************************************************************)
(* data_relationship_tester.py: DataRelationshipTester on the samples of   *)
(* two columns.  A score is the fraction <<numerator, denominator>> that   *)
(* the code divides.                                                       *)
(***************************************************************************)
MaxSample == 3

\* the samples _get_sample_data can return: up to MaxSample values
Samples == UNION {[1..n -> 1..4] : n \in 0..MaxSample}

\* a mutation of _calculate_referential_integrity: the source values are
\* counted with their repetitions
IntegrityOverRecords(source_values, target_values) ==
    IF source_values = <<>> THEN <<0, 1>>
    ELSE <<Cardinality(Range(source_values) \cap Range(target_values)), Len(source_values)>>

\* _calculate_referential_integrity
calculate_referential_integrity(source_values, target_values) ==
    IF source_values = <<>> THEN <<0, 1>>
    ELSE <<Cardinality(Range(source_values) \cap Range(target_values)),
           Cardinality(Range(source_values))>>

\* A sampled value that cannot be put in a set (the list or dict of a
\* REPEATED or RECORD column): set(source_values) raises TypeError on it.
\* The other sampled values are 1 and 2.
Unhashable == 0

\* data_testing_config.sample_size as it is written into the key of the
\* sample cache
sample_size == <<"1000">>

\* What the query of line 121 comes back with: rows ("values") or an
\* exception ("fetch_raises")
Fetch(kind, values) == [kind |-> kind, values |-> values]

\* line 106: cache_key = f"{table_name}_{column_name}_{limit}"
SampleKey(table_name, column_name) == table_name \o column_name \o sample_size

\* _get_sample_data, lines 95-125, up to the query of line 121:
\* [fetched, sample_data, cache].  A key of the sample cache answers without
\* a query (lines 108-110); with a connector the query is sent ("query":
\* the call waits for it); without one the CLI fallback, which has no
\* connector either, gives [] (lines 137-138), and [] is cached (line 128).
get_sample_data(cache, table_name, column_name, has_connector) ==
    LET cache_key == SampleKey(table_name, column_name)
    IN  IF cache_key \in DOMAIN cache
        THEN [fetched |-> "cached", sample_data |-> cache[cache_key], cache |-> cache]
        ELSE IF has_connector
        THEN [fetched |-> "query", sample_data |-> <<>>, cache |-> cache]
        ELSE [fetched |-> "no_connector", sample_data |-> <<>>,
              cache |-> Put(cache, cache_key, <<>>)]

\* _get_sample_data, lines 121-133, from the return of the query on: the
\* rows are written to the sample cache as it is now (line 128), also an
\* empty list; after an exception nothing is cached and the sample is []
\* (lines 131-133)
query_returns(cache, table_name, column_name, answer) ==
    IF answer.kind = "fetch_raises"
    THEN [fetched |-> answer.kind, sample_data |-> <<>>, cache |-> cache]
    ELSE [fetched |-> answer.kind, sample_data |-> answer.values,
          cache |-> Put(cache, SampleKey(table_name, column_name), answer.values)]

\* lines 195-203: the first column of the table with the name
FindColumn(table, column_name) ==
    LET found == {i \in DOMAIN table.columns : table.columns[i].name = column_name}
    IN  IF found = {} THEN None
        ELSE Some(table.columns[CHOOSE i \in found : \A j \in found : i <= j])

\* lines 217-226, with the type names in upper case as BigQuery gives them
CompatibleTypes(data_type) ==
    CASE data_type = "INT64" -> {"INTEGER", "INT32", "INT64"}
      [] data_type = "INTEGER" -> {"INT64", "INT32", "INTEGER"}
      [] data_type = "STRING" -> {"VARCHAR", "TEXT", "CHAR"}
      [] data_type = "VARCHAR" -> {"STRING", "TEXT", "CHAR"}
      [] data_type = "FLOAT64" -> {"FLOAT", "DOUBLE", "NUMERIC"}
      [] data_type = "FLOAT" -> {"FLOAT64", "DOUBLE", "NUMERIC"}
      [] data_type = "TIMESTAMP" -> {"DATETIME", "DATE"}
      [] data_type = "DATETIME" -> {"TIMESTAMP", "DATE"}
      [] OTHER -> {}

\* line 232
NumericTypes == {"INT64", "INTEGER", "INT32", "FLOAT64", "FLOAT", "DOUBLE", "NUMERIC"}

\* line 237
StringTypes == {"STRING", "VARCHAR", "TEXT", "CHAR"}

\* _check_type_compatibility, lines 179-241, in tenths
check_type_compatibility(source_table, target_table, relationship) ==
    LET source_column == FindColumn(source_table, relationship.source_column)
        target_column == FindColumn(target_table, relationship.target_column)
    IN  IF source_column = None \/ target_column = None THEN 0
        ELSE IF source_column[1].data_type = target_column[1].data_type THEN 10
        ELSE IF target_column[1].data_type \in CompatibleTypes(source_column[1].data_type)
        THEN 8
        ELSE IF source_column[1].data_type \in NumericTypes
                    /\ target_column[1].data_type \in NumericTypes
        THEN 6
        ELSE IF source_column[1].data_type \in StringTypes
                    /\ target_column[1].data_type \in StringTypes
        THEN 6
        ELSE 2

\* _calculate_frequency_distribution, lines 286-299, for one value
Frequency(values, value) == Cardinality({i \in DOMAIN values : values[i] = value})

\* lines 267-273: total_similarity over the common values, in units of
\* 1 / (len(source_values) * len(target_values))
RECURSIVE TotalSimilarity(_, _, _)
TotalSimilarity(common_values, source_values, target_values) ==
    IF common_values = {} THEN 0
    ELSE LET value == CHOOSE v \in common_values : TRUE
             cross == Frequency(source_values, value) * Len(target_values)
                        - Frequency(target_values, value) * Len(source_values)
         IN  Len(source_values) * Len(target_values) - (IF cross < 0 THEN -cross ELSE cross)
                + TotalSimilarity(common_values \ {value}, source_values, target_values)

\* _compare_value_distributions, lines 243-284: the average similarity of
\* the common values times their share of the larger set of distinct values
compare_value_distributions(source_values, target_values) ==
    LET common_values == Range(source_values) \cap Range(target_values)
    IN  IF source_values = <<>> \/ target_values = <<>> \/ common_values = {}
        THEN <<0, 1>>
        ELSE <<TotalSimilarity(common_values, source_values, target_values),
               Len(source_values) * Len(target_values)
                    * Max(Cardinality(Range(source_values)),
                          Cardinality(Range(target_values)))>>

\* _calculate_overall_confidence, lines 301-327:
\* 0.5 * referential_integrity + 0.3 * type_compatibility
\* + 0.2 * distribution_similarity, kept between 0 and 1
calculate_overall_confidence(referential_integrity, type_compatibility, distribution_similarity) ==
    LET denominator == 100 * referential_integrity[2] * distribution_similarity[2]
        numerator == 50 * referential_integrity[1] * distribution_similarity[2]
                        + 3 * type_compatibility * referential_integrity[2]
                            * distribution_similarity[2]
                        + 20 * distribution_similarity[1] * referential_integrity[2]
    IN  <<Min(denominator, Max(0, numerator)), denominator>>

\* score >= tenths / 10
AtLeast(score, tenths) == 10 * score[1] >= tenths * score[2]

\* DataTestResult, lines 15-24, and whether the call raised instead
DataTestResult(raised, referential_integrity, type_compatibility, distribution_similarity, overall_confidence, source_records, orphan_count) ==
    [raised |-> raised, referential_integrity |-> referential_integrity,
     type_compatibility |-> type_compatibility,
     distribution_similarity |-> distribution_similarity,
     overall_confidence |-> overall_confidence, sample_size |-> source_records,
     orphan_count |-> orphan_count, total_source_records |-> source_records]

\* test_relationship_with_data, lines 71-93, on the two samples fetched: an
\* empty sample gives the result of all zeros (lines 71-73); a value that
\* cannot be put in a set makes line 76 raise.
test_relationship_with_data(relationship, source_table, target_table, source_sample, target_sample) ==
    LET Scored(referential_integrity, type_compatibility, distribution_similarity) ==
            DataTestResult(FALSE, referential_integrity, type_compatibility,
                distribution_similarity,
                calculate_overall_confidence(referential_integrity, type_compatibility,
                                             distribution_similarity),
                Len(source_sample),
                Len(source_sample)
                    - Cardinality(Range(source_sample) \cap Range(target_sample)))
    IN  IF source_sample = <<>> \/ target_sample = <<>>
        THEN DataTestResult(FALSE, <<0, 1>>, 0, <<0, 1>>, <<0, 1>>, 0, 0)
        ELSE IF Unhashable \in Range(source_sample) \cup Range(target_sample)
        THEN DataTestResult(TRUE, <<0, 1>>, 0, <<0, 1>>, <<0, 1>>, 0, 0)
        ELSE Scored(calculate_referential_integrity(source_sample, target_sample),
                    check_type_compatibility(source_table, target_table, relationship),
                    compare_value_distributions(source_sample, target_sample))

(***************************************************************************)
(* enhanced_relationship_detector.py: _apply_data_testing                  *)
(***************************************************************************)
\* a mutation of DataValidated: the kind is left as it was
Untagged(kind, qualified_format) == kind

\* line 188: f"{relationship.relationship_type}_data_validated".  Formatting
\* a member of the (str, Enum) class RelationshipType gives its value up to
\* Python 3.10 and its qualified name from Python 3.11 on; no such string is
\* a value of RelationshipType.
DataValidated(kind, qualified_format) ==
    CASE kind = "one_to_one" ->
            IF qualified_format THEN "RelationshipType.ONE_TO_ONE_data_validated"
            ELSE "one_to_one_data_validated"
      [] kind = "one_to_many" ->
            IF qualified_format THEN "RelationshipType.ONE_TO_MANY_data_validated"
            ELSE "one_to_many_data_validated"
      [] kind = "many_to_one" ->
            IF qualified_format THEN "RelationshipType.MANY_TO_ONE_data_validated"
            ELSE "many_to_one_data_validated"
      [] kind = "many_to_many" ->
            IF qualified_format THEN "RelationshipType.MANY_TO_MANY_data_validated"
            ELSE "many_to_many_data_validated"

\* line 186 without the cap
BoostUncapped(confidence) == confidence + 2

\* line 186: min(1.0, relationship.confidence + 0.2)
Boost(confidence) == Min(10, confidence + 2)

\* line 194: max(0.1, relationship.confidence - 0.3)
Penalty(confidence) == Max(1, confidence - 3)

\* line 153: table_map = {table.table_id: table for table in tables}
TableMapGet(tables, table_id) ==
    LET found == {i \in DOMAIN tables : tables[i].table_id = table_id}
    IN  IF found = {} THEN None
        ELSE Some(tables[CHOOSE i \in found : \A j \in found : i >= j])

\* the trace entry of a relationship that was not put to the test
NoOutcome ==
    [source_fetch |-> "none", target_fetch |-> "none", raised |-> FALSE,
     overall_confidence |-> <<0, 1>>]

\* A call of detect_relationships_enhanced under way is a record: its
\* arguments, what it holds in its local variables and where it is ("at"):
\* "tasks" (waiting for the group tasks, parallel_processor.py line 72),
\* "loop" (at the top of the loop of line 157), "source" and "target" (about
\* to fetch the sample of the source or the target column),
\* "source_query" and "target_query" (waiting for the query of
\* data_relationship_tester.py line 121).  relationships holds the
\* relationships still to be tested, the first one being the one under
\* test; tested is tested_relationships.  state is the part of the
\* detector the loop reads and writes, [memory, stamps, samples]; env is
\* [disk, current_time, config, connector].

\* lines 164, 173, 200, 204: a relationship is appended to
\* tested_relationships and the loop goes to the next one
Appended(call, output, branch, outcome, env) ==
    [call EXCEPT
        !.at = "loop",
        !.relationships = Tail(call.relationships),
        !.tested = Append(call.tested, output),
        !.trace = Append(call.trace,
                    [input |-> Head(call.relationships), outcome |-> outcome,
                     confidence_threshold |-> env.config.confidence_threshold,
                     branch |-> branch, output |-> output]),
        !.source_got = None]

\* lines 60-64 and 65-69 done: the call holds the sample
Got(call, got) == [sample_data |-> got.sample_data, fetched |-> got.fetched]

\* lines 71-93 and 183-204: the two samples are there; the test, and the
\* relationship raised, lowered or, when the test raised, left
Verdict(call, target_got, env) ==
    LET relationship == Head(call.relationships)
        Adjust(test, outcome) ==
            IF test.raised THEN Appended(call, relationship, "error", outcome, env)
            ELSE IF AtLeast(test.overall_confidence, env.config.confidence_threshold)
            THEN Appended(call,
                    [relationship EXCEPT
                        !.confidence = Boost(relationship.confidence),
                        !.relationship_type = DataValidated(relationship.relationship_type,
                                                            env.config.qualified_format)],
                    "passed", outcome, env)
            ELSE Appended(call,
                    [relationship EXCEPT !.confidence = Penalty(relationship.confidence)],
                    "failed", outcome, env)
        Tested(test) ==
            Adjust(test, [source_fetch |-> call.source_got[1].fetched,
                          target_fetch |-> target_got.fetched, raised |-> test.raised,
                          overall_confidence |-> test.overall_confidence])
    IN  Tested(test_relationship_with_data(relationship,
                    TableMapGet(call.tables, relationship.source_table)[1],
                    TableMapGet(call.tables, relationship.target_table)[1],
                    call.source_got[1].sample_data, target_got.sample_data))

\* lines 157-204 from where the call is to the query it has to wait for, or
\* to the end of the loop: [call, state]
RECURSIVE ApplyDataTesting(_, _, _)
ApplyDataTesting(call, state, env) ==
    LET relationship == Head(call.relationships)
        With(memory, stamps) == [state EXCEPT !.memory = memory, !.stamps = stamps]
        Looked(got) ==
            IF got.result # None
            THEN ApplyDataTesting(Appended(call, got.result[1], "cached", NoOutcome, env),
                                  With(got.memory, got.stamps), env)
            ELSE IF TableMapGet(call.tables, relationship.source_table) = None
                        \/ TableMapGet(call.tables, relationship.target_table) = None
            THEN ApplyDataTesting(Appended(call, relationship, "missing_table", NoOutcome,
                                           env),
                                  With(got.memory, got.stamps), env)
            ELSE ApplyDataTesting([call EXCEPT !.at = "source"],
                                  With(got.memory, got.stamps), env)
        Source(got) ==
            IF got.fetched = "query"
            THEN [call |-> [call EXCEPT !.at = "source_query"], state |-> state]
            ELSE ApplyDataTesting(
                    [call EXCEPT !.at = "target", !.source_got = Some(Got(call, got))],
                    [state EXCEPT !.samples = got.cache], env)
        Target(got) ==
            IF got.fetched = "query"
            THEN [call |-> [call EXCEPT !.at = "target_query"], state |-> state]
            ELSE ApplyDataTesting(Verdict(call, got, env),
                                  [state EXCEPT !.samples = got.cache], env)
    IN  IF call.relationships = <<>> THEN [call |-> call, state |-> state]
        ELSE IF call.at = "loop"
        THEN Looked(IF env.config.cache_enabled
                    THEN get_cached_relationship(state.memory, env.disk, state.stamps,
                            env.current_time, relationship.source_table,
                            relationship.target_table)
                    ELSE [result |-> None, memory |-> state.memory,
                          stamps |-> state.stamps])
        ELSE IF call.at = "source"
        THEN Source(get_sample_data(state.samples, relationship.source_table,
                                    relationship.source_column, env.connector))
        ELSE Target(get_sample_data(state.samples, relationship.target_table,
                                    relationship.target_column, env.connector))

\* the query a call waits for has come back with answer: lines 121-133, and
\* on to the next query or to the end of the loop
QueryReturned(call, state, env, answer) ==
    LET relationship == Head(call.relationships)
        Source(got) ==
            ApplyDataTesting(
                [call EXCEPT !.at = "target", !.source_got = Some(Got(call, got))],
                [state EXCEPT !.samples = got.cache], env)
        Target(got) ==
            ApplyDataTesting(Verdict(call, got, env),
                             [state EXCEPT !.samples = got.cache], env)
    IN  IF call.at = "source_query"
        THEN Source(query_returns(state.samples, relationship.source_table,
                                  relationship.source_column, answer))
        ELSE Target(query_returns(state.samples, relationship.target_table,
                                  relationship.target_column, answer))

(***************************************************************************)
(* enhanced_relationship_detector.py: detect_relationships_enhanced over   *)
(* a dataset whose tables change between the runs                          *)
(***************************************************************************)
MaxRuns == 2

\* What the query of a column's sample can come back with: the sample of
\* a.b_id is [1], [1, 2], a list with an unhashable value, or the query
\* raises; the sample of every other column is [1]
QueryAnswers(table_name, column_name) ==
    IF table_name = Name("a") /\ column_name = <<"b", "id">>
    THEN { Fetch("values", <<1>>), Fetch("values", <<1, 2>>),
           Fetch("values", <<Unhashable>>), Fetch("fetch_raises", <<>>) }
    ELSE { Fetch("values", <<1>>) }

\* The configurations a detector is built with
Configs ==
    { Config(TRUE, TRUE, FALSE, TRUE, 10, 5, TRUE, None),
      Config(TRUE, TRUE, FALSE, TRUE, 10, 10, FALSE, None),
      Config(TRUE, TRUE, TRUE, TRUE, 10, 5, TRUE, None),
      Config(TRUE, FALSE, TRUE, FALSE, 1, 5, TRUE, None) }
      \cup {Config(TRUE, TRUE, FALSE, TRUE, 10, 5, TRUE, custom_rules) :
                custom_rules \in EnhancedCustomRules \ {None}}

\* line 221: filtering_rules.get("max_relationships_per_table", 5)
DefaultMaxRelsPerTable == 5

\* lines 93-95
RECURSIVE CacheAll(_, _, _, _, _)
CacheAll(memory, disk, stamps, current_time, relationships) ==
    IF relationships = <<>> THEN [memory |-> memory, disk |-> disk, stamps |-> stamps]
    ELSE LET cached == cache_relationship(memory, disk, stamps, current_time,
                                          Head(relationships))
         IN  CacheAll(cached.memory, cached.disk, cached.stamps, current_time,
                      Tail(relationships))

\* lines 98-102: for every processed table, the filtered relationships it
\* is the source or the target of are stored under it, and it is marked
RECURSIVE StoreTables(_, _, _)
StoreTables(state, tables_to_process, filtered_relationships) ==
    IF tables_to_process = <<>> THEN state
    ELSE LET table == Head(tables_to_process)
             Touches(r) == r.source_table = table.table_id
                            \/ r.target_table = table.table_id
             table_relationships == SelectSeq(filtered_relationships, Touches)
         IN  StoreTables(
                StateDocument(
                    state.processed_tables \cup {table.table_id},
                    update_table_relationships(state.relationship_graph, table.table_id,
                                               table_relationships),
                    Put(state.table_checksums, table.table_id, get_table_checksum(table))),
                Tail(tables_to_process), filtered_relationships)

\* the orders in which as_completed can yield n futures
CompletionOrders(n) ==
    {order \in [1..n -> 1..n] : \A i, j \in 1..n : order[i] = order[j] => i = j}

\* parallel_processor.py lines 72-77: the results of the groups, extended
\* in the order of completion
RECURSIVE InOrder(_, _)
InOrder(results, order) ==
    IF order = <<>> THEN <<>>
    ELSE results[Head(order)] \o InOrder(results, Tail(order))

\* _detect_relationships_parallel, lines 111-126, over
\* process_tables_parallel (parallel_processor.py lines 36-84) with group
\* tasks that come back in time: [raised, emitted, relationships].  Fewer
\* than two tables are processed in the caller's thread, where an exception
\* propagates; in a group task it becomes [].
detect_relationships_parallel(tables, group_by_type, batch_size, order) ==
    LET Results(table_groups) ==
            [i \in DOMAIN table_groups |->
                process_group_with_timeout(table_groups[i], Returning)]
        Emissions(table_groups) ==
            [i \in DOMAIN table_groups |-> process_func(table_groups[i]).emitted]
        Joined(table_groups) ==
            [raised |-> FALSE,
             emitted |-> InOrder(Emissions(table_groups), order),
             relationships |-> InOrder(Results(table_groups), order)]
    IN  IF Len(tables) < 2 THEN process_func(tables)
        ELSE Joined(IF group_by_type THEN group_tables_by_type(tables, batch_size)
                    ELSE group_tables_by_size(tables, batch_size))

\* the number of group tasks of such a call
GroupCount(tables, group_by_type, batch_size) ==
    IF Len(tables) < 2 THEN 0
    ELSE IF group_by_type THEN Len(group_tables_by_type(tables, batch_size))
    ELSE Len(group_tables_by_size(tables, batch_size))

\* __init__, lines 21-49: the detector right after construction with one of
\* the configurations: an empty sample cache (data_relationship_tester.py
\* line 40), a tester whose connector is set or not, and an
\* IncrementalProcessor without a state file
InitEnhanced ==
    /\ table_schemas \in {f \in [Range(TableOrder) -> UNION {Schemas(t) : t \in Range(TableOrder)}] :
                            \A t \in Range(TableOrder) : f[t] \in Schemas(t)}
    /\ config \in Configs
    /\ connector \in BOOLEAN
    /\ sample_cache = EmptyMap
    /\ processed_tables = {}
    /\ table_checksums = EmptyMap
    /\ relationship_graph = <<>>
    /\ state_file = None
    /\ log = <<>>
    /\ waiting = <<>>
    /\ cleared = FALSE

\* What a call holds after lines 63-71: its arguments, the tables selected
\* and the relationships read from the state; began and after_clear are
\* history: how many calls had ended, and whether clear_cache was called
\* since the last of them, when the call selected its tables
Call(all_tables, tables_to_process, existing_relationships, enable_data_testing) ==
    [tables |-> all_tables, tables_to_process |-> tables_to_process,
     existing_relationships |-> existing_relationships,
     enable_data_testing |-> enable_data_testing,
     began |-> Len(log), after_clear |-> cleared,
     at |-> "tasks", emitted |-> <<>>, relationships |-> <<>>, tested |-> <<>>,
     trace |-> <<>>, source_got |-> None]

\* the record of a call that ended
Entry(call, raised, produced, returned) ==
    [tables |-> call.tables,
     selected |-> [i \in DOMAIN call.tables_to_process |->
                        call.tables_to_process[i].table_id],
     raised |-> raised, emitted |-> call.emitted, trace |-> call.trace,
     produced |-> produced, returned |-> returned,
     began |-> call.began, after_clear |-> call.after_clear]

\* lines 79-87: the detection has come back with new_relationships; with
\* data testing they go to the loop of _apply_data_testing, without it
\* they are what the loop would have put out
Detected(call, detection) ==
    IF call.enable_data_testing /\ config.data_testing_enabled
    THEN [call EXCEPT !.at = "loop", !.emitted = detection.emitted,
                      !.relationships = detection.relationships]
    ELSE [call EXCEPT !.at = "loop", !.emitted = detection.emitted,
                      !.tested = detection.relationships]

\* the calls under way with the i-th one replaced by call, or call added
\* (i = Len(waiting) + 1)
Kept(i, call) ==
    [k \in 1..Max(Len(waiting), i) |-> IF k = i THEN call ELSE waiting[k]]

\* the calls under way without the i-th one
Others(i) ==
    IF i > Len(waiting) THEN waiting
    ELSE [k \in 1..(Len(waiting) - 1) |-> IF k < i THEN waiting[k] ELSE waiting[k + 1]]

\* what the loop reads and writes of the detector, and what it only reads
LoopState == [memory |-> memory_cache, stamps |-> stamp, samples |-> sample_cache]

LoopEnv ==
    [disk |-> disk_cache, current_time |-> now, config |-> config,
     connector |-> connector]

\* lines 89-109: the call from the filter to its end, with the cache and the
\* incremental state as they are now
Finish(call, state, i) ==
    LET Save(filtered_relationships, cached, saved) ==
            /\ memory_cache' = cached.memory
            /\ disk_cache' = cached.disk
            /\ stamp' = cached.stamps
            /\ sample_cache' = state.samples
            /\ IF config.incremental_processing
               THEN /\ processed_tables' = saved.processed_tables
                    /\ table_checksums' = saved.table_checksums
                    /\ relationship_graph' = saved.relationship_graph
                    /\ state_file' = Some(saved)
               ELSE UNCHANGED <<processed_tables, table_checksums, relationship_graph,
                                state_file>>
            /\ log' = Append(log, Entry(call, FALSE, filtered_relationships,
                            call.existing_relationships \o filtered_relationships))
        Filtered(filtered_relationships) ==
            Save(filtered_relationships,
                 IF config.cache_enabled
                 THEN CacheAll(state.memory, disk_cache, state.stamps, now,
                               filtered_relationships)
                 ELSE [memory |-> state.memory, disk |-> disk_cache,
                       stamps |-> state.stamps],
                 StoreTables(StateDocument(processed_tables, relationship_graph,
                                           table_checksums),
                             call.tables_to_process, filtered_relationships))
    IN  /\ Filtered(enhanced_filter_relationships(call.tested, DefaultMaxRelsPerTable,
                                                  DefaultMinConfidence, {}))
        /\ cleared' = FALSE
        /\ waiting' = Others(i)

\* the i-th call has run up to went.call: it has ended, or it waits for a
\* query with what the loop wrote so far in the detector
Goes(went, i) ==
    IF went.call.relationships = <<>>
    THEN Finish(went.call, went.state, i)
    ELSE /\ memory_cache' = went.state.memory
         /\ stamp' = went.state.stamps
         /\ sample_cache' = went.state.samples
         /\ waiting' = Kept(i, went.call)
         /\ UNCHANGED <<disk_cache, processed_tables, table_checksums, relationship_graph,
                        state_file, log, cleared>>

\* lines 79-87 with the detection's outcome: an exception of the detection
\* ends the call, relationships go to the data testing
Detection(call, detection, i) ==
    IF detection.raised
    THEN /\ log' = Append(log, Entry([call EXCEPT !.emitted = detection.emitted],
                                     TRUE, <<>>, <<>>))
         /\ cleared' = FALSE
         /\ waiting' = Others(i)
         /\ UNCHANGED <<memory_cache, disk_cache, stamp, sample_cache, processed_tables,
                        table_checksums, relationship_graph, state_file>>
    ELSE Goes(ApplyDataTesting(Detected(call, detection), LoopState, LoopEnv), i)

\* lines 50-109: a call of detect_relationships_enhanced begins and runs
\* until it has to wait: for its group tasks (parallel_processor.py lines
\* 50-72: parallel processing and two tables or more) or for the query of a
\* sample (data_relationship_tester.py line 121); other calls on the
\* detector run while it waits.  Without either it ends in this step.
DetectRelationshipsEnhanced(enable_data_testing, enable_parallel) ==
    LET parallel == enable_parallel /\ config.parallel_processing
        Selected(call) ==
            IF call.tables_to_process = <<>>
            THEN /\ log' = Append(log, Entry(call, FALSE, <<>>,
                                             call.existing_relationships))
                 /\ cleared' = FALSE
                 /\ UNCHANGED <<memory_cache, disk_cache, stamp, sample_cache,
                                processed_tables, table_checksums, relationship_graph,
                                state_file, waiting>>
            ELSE IF parallel /\ Len(call.tables_to_process) >= 2
            THEN /\ waiting' = Append(waiting, call)
                 /\ UNCHANGED <<memory_cache, disk_cache, stamp, sample_cache,
                                processed_tables, table_checksums, relationship_graph,
                                state_file, log, cleared>>
            ELSE Detection(call,
                    IF parallel THEN process_func(call.tables_to_process)
                    ELSE detect_relationships(call.tables_to_process),
                    Len(waiting) + 1)
    IN  /\ Len(log) + Len(waiting) < MaxRuns
        /\ Selected(Call(TableList(table_schemas),
                         IF config.incremental_processing
                         THEN get_tables_to_process(TableList(table_schemas),
                                                    processed_tables, table_checksums)
                         ELSE TableList(table_schemas),
                         IF config.incremental_processing
                         THEN get_all_relationships(relationship_graph) ELSE <<>>,
                         enable_data_testing))
        /\ UNCHANGED <<table_schemas, now, lookup, written, config, connector>>

\* parallel_processor.py lines 72-84 and enhanced_relationship_detector.py
\* lines 85-87: as_completed has yielded the group tasks of a waiting call
\* in some order, and the call goes on until it has to wait for a query, or
\* to its end
CompleteDetection(i) ==
    /\ waiting[i].at = "tasks"
    /\ \E order \in CompletionOrders(GroupCount(waiting[i].tables_to_process,
                                                config.group_tables_by_type,
                                                config.batch_size)) :
            Detection(waiting[i],
                detect_relationships_parallel(waiting[i].tables_to_process,
                    config.group_tables_by_type, config.batch_size, order),
                i)
    /\ UNCHANGED <<table_schemas, now, lookup, written, config, connector>>

\* data_relationship_tester.py lines 121-133 and on: the query a call waits
\* for comes back with rows or raises, and the call goes on until it has to
\* wait for the next query, or to its end
SampleQueryReturns(i, answer) ==
    /\ waiting[i].at \in {"source_query", "target_query"}
    /\ answer \in
            IF waiting[i].at = "source_query"
            THEN QueryAnswers(Head(waiting[i].relationships).source_table,
                              Head(waiting[i].relationships).source_column)
            ELSE QueryAnswers(Head(waiting[i].relationships).target_table,
                              Head(waiting[i].relationships).target_column)
    /\ Goes(QueryReturned(waiting[i], LoopState, LoopEnv, answer), i)
    /\ UNCHANGED <<table_schemas, now, lookup, written, config, connector>>

\* the patterns of the clear_cache calls: None and 'a'
EnhancedPatterns == {None, <<"a">>}

\* clear_cache, lines 274-283: RelationshipCache.clear_cache and
\* IncrementalProcessor.clear_state, which saves the state
EnhancedClearCache(table_pattern) ==
    LET state == clear_state(processed_tables, relationship_graph, table_checksums,
                             table_pattern)
    IN  /\ IF config.cache_enabled THEN ClearCache(table_pattern)
           ELSE UNCHANGED cacheVars
        /\ IF config.incremental_processing
           THEN /\ processed_tables' = state.processed_tables
                /\ table_checksums' = state.table_checksums
                /\ relationship_graph' = state.relationship_graph
                /\ state_file' = Some(state)
           ELSE UNCHANGED <<processed_tables, table_checksums, relationship_graph,
                            state_file>>
        /\ cleared' = TRUE
        /\ UNCHANGED <<table_schemas, log, sample_cache, config, connector, waiting>>

\* The columns of a table of the dataset change
ChangeTable(table_id, columns) ==
    /\ Len(log) < MaxRuns
    /\ columns # table_schemas[table_id]
    /\ table_schemas' = [table_schemas EXCEPT ![table_id] = columns]
    /\ UNCHANGED <<cacheVars, processed_tables, table_checksums, relationship_graph,
                   state_file, log, sample_cache, config, connector, waiting, cleared>>

\* The process has ended with no call under way, and the next run is made by
\* a new process with the same configuration: a new
\* DataRelationshipTester, whose connector is set or not, a new
\* RelationshipCache (relationship_cache.py lines 18-28) and a new
\* IncrementalProcessor (incremental_processor.py lines 18-29) that loads
\* the saved state
NewProcess ==
    LET state == load_state(state_file)
    IN  /\ log # <<>>
        /\ Len(log) < MaxRuns
        /\ waiting = <<>>
        /\ connector' \in BOOLEAN
        /\ memory_cache' = EmptyMap
        /\ stamp' = EmptyMap
        /\ sample_cache' = EmptyMap
        /\ processed_tables' = state.processed_tables
        /\ table_checksums' = state.table_checksums
        /\ relationship_graph' = state.relationship_graph
        /\ UNCHANGED <<disk_cache, now, lookup, written, table_schemas, state_file, log,
                       config, waiting, cleared>>

NextEnhanced ==
    /\ \/ \E enable_data_testing \in BOOLEAN, enable_parallel \in BOOLEAN :
            DetectRelationshipsEnhanced(enable_data_testing, enable_parallel)
       \/ \E i \in DOMAIN waiting : CompleteDetection(i)
       \/ \E i \in DOMAIN waiting :
            \E answer \in QueryAnswers(Name("a"), <<"b", "id">>) :
                SampleQueryReturns(i, answer)
       \/ \E table_pattern \in EnhancedPatterns : EnhancedClearCache(table_pattern)
       \/ \E table_id \in Range(TableOrder) :
            \E columns \in Schemas(table_id) : ChangeTable(table_id, columns)
       \/ NewProcess
    /\ UNCHANGED <<detectorVars, parallelVars, schemaVars, data_test, grouping>>

StartEnhanced == InitDetector /\ InitCache /\ InitEnhanced /\ InitParallel /\ InitSchema /\ InitTester

SpecEnhanced == StartEnhanced /\ [][NextEnhanced]_vars

(***************************************************************************)
(* Runs of detect_relationships_enhanced: claims C3, C4, C7, C8 (under     *)
(* SpecEnhanced)                                                           *)
(***************************************************************************)
\* the second call to end selected its tables after the first one had ended,
\* with no clear_cache in between
SecondRunFollows ==
    /\ Len(log) = 2
    /\ log[2].began = 1
    /\ ~log[2].after_clear

Occurrences(relationships, r) ==
    Cardinality({i \in DOMAIN relationships : relationships[i] = r})

\* C3: in the list a run of detect_relationships_enhanced returns, no
\* identity key (source table, source column, target table, target column)
\* occurs twice, whatever runs came before.
C3_NoDoubleCount ==
    \A n \in DOMAIN log :
        \A i, j \in DOMAIN log[n].returned :
            i # j => ~SameIdentity(log[n].returned[i], log[n].returned[j])

\* C4: with incremental processing enabled, when the first run has
\* processed the tables (it did not raise) and no table has another
\* fingerprint at the second run, the second run selects no table and
\* returns the relationships the first run produced and stored, each as
\* often as the first run returned it.
C4_IncrementalCorrectness ==
    (/\ config.incremental_processing
     /\ SecondRunFollows
     /\ ~log[1].raised
     /\ log[2].tables = log[1].tables) =>
        /\ log[2].selected = <<>>
        /\ \A r \in Range(log[1].returned) \cup Range(log[2].returned) :
              Occurrences(log[2].returned, r) = Occurrences(log[1].returned, r)

InBounds(r) == r.confidence >= 0 /\ r.confidence <= 10

\* C7: every relationship has a confidence in [0.0, 1.0] at every stage: as
\* a generator or a custom rule emits it, as it enters the data validation
\* pass from the detector (after conflict resolution and filtering), as it
\* leaves the pass, after filtering, as cached, as stored in the
\* incremental state and as returned; also in the calls still under way.
C7_ConfidenceBound ==
    /\ \A n \in DOMAIN log :
          /\ \A i \in DOMAIN log[n].emitted : InBounds(log[n].emitted[i])
          /\ \A i \in DOMAIN log[n].trace :
                InBounds(log[n].trace[i].input) /\ InBounds(log[n].trace[i].output)
          /\ \A i \in DOMAIN log[n].produced : InBounds(log[n].produced[i])
          /\ \A i \in DOMAIN log[n].returned : InBounds(log[n].returned[i])
    /\ \A key \in DOMAIN memory_cache : InBounds(memory_cache[key])
    /\ \A key \in DOMAIN disk_cache : InBounds(disk_cache[key].data)
    /\ \A i \in DOMAIN relationship_graph :
          \A j \in DOMAIN relationship_graph[i].relationships :
              InBounds(relationship_graph[i].relationships[j])
    /\ \A k \in DOMAIN waiting :
          /\ \A i \in DOMAIN waiting[k].emitted : InBounds(waiting[k].emitted[i])
          /\ \A i \in DOMAIN waiting[k].relationships :
                InBounds(waiting[k].relationships[i])
          /\ \A i \in DOMAIN waiting[k].tested : InBounds(waiting[k].tested[i])

\* The validation pass boosted a relationship of confidence 0.9 or more to
\* the cap and lowered another one, and both were returned; a custom rule
\* emitted a relationship at 1.0 and a naming pattern one at 0.0; a
\* relationship of a custom rule at 1.0 was boosted and stayed at 1.0, and
\* one at 0.3 was lowered to the floor 0.1.
C7_Witness ==
    /\ \E n \in DOMAIN log :
          /\ \E i \in DOMAIN log[n].emitted :
                /\ log[n].emitted[i].detection_method = "custom_rules"
                /\ log[n].emitted[i].confidence = 10
          /\ \E i \in DOMAIN log[n].emitted :
                /\ log[n].emitted[i].detection_method = "custom_naming_pattern"
                /\ log[n].emitted[i].confidence = 0
    /\ \E n \in DOMAIN log : \E i \in DOMAIN log[n].trace :
          /\ log[n].trace[i].branch = "passed"
          /\ log[n].trace[i].input.is_custom
          /\ log[n].trace[i].input.confidence = 10
          /\ log[n].trace[i].output.confidence = 10
    /\ \E n \in DOMAIN log : \E i \in DOMAIN log[n].trace :
          /\ log[n].trace[i].branch = "failed"
          /\ log[n].trace[i].input.is_custom
          /\ log[n].trace[i].input.confidence = 3
          /\ log[n].trace[i].output.confidence = 1
    /\ \E n \in DOMAIN log : \E i \in DOMAIN log[n].trace :
          /\ log[n].trace[i].branch = "passed"
          /\ log[n].trace[i].input.confidence >= 9
          /\ log[n].trace[i].output.confidence = 10
          /\ log[n].trace[i].output \in Range(log[n].returned)
    /\ \E n \in DOMAIN log : \E i \in DOMAIN log[n].trace :
          /\ log[n].trace[i].branch = "failed"
          /\ log[n].trace[i].output.confidence = log[n].trace[i].input.confidence - 3
          /\ log[n].trace[i].output \in Range(log[n].returned)

SampleFailed(outcome) ==
    \/ outcome.source_fetch \in {"fetch_raises", "no_connector"}
    \/ outcome.target_fetch \in {"fetch_raises", "no_connector"}

\* C8: a relationship that the validation pass put to the test while the
\* sample source failed (a fetch raised or no connector could supply
\* values) leaves the pass as it entered it.
C8_SampleFailureUnmodified ==
    \A n \in DOMAIN log :
        \A i \in DOMAIN log[n].trace :
            (/\ log[n].trace[i].branch \notin {"cached", "missing_table"}
             /\ SampleFailed(log[n].trace[i].outcome))
                => log[n].trace[i].output = log[n].trace[i].input

\* ---------------------------------------------------------------------------
\* ParallelProcessor.process_tables_parallel (parallel_processor.py)
\* ---------------------------------------------------------------------------

\* a mutation of Extend: the list is assigned, not extended
Assign(all, relationships) == relationships

\* all_relationships.extend(relationships)
Extend(all, relationships) == all \o relationships

\* lines 36-64: the call up to the submission of the group tasks.  With
\* parallel processing disabled or fewer than two tables, process_func runs
\* in the caller's thread (lines 50-52).
ProcessTablesParallel(tables, enable_parallel, group_by_type, batch_size) ==
    /\ run_status = "idle"
    /\ IF ~enable_parallel \/ Len(tables) < 2
       THEN \E nature \in TaskNatures :
                /\ run_status' = IF ~nature.terminates THEN "inline"
                                 ELSE IF Raises(tables, nature) THEN "raised"
                                 ELSE "returned"
                /\ collected' = IF nature.terminates /\ ~Raises(tables, nature)
                                THEN process_func(tables).relationships ELSE <<>>
                /\ futures' = <<>>
                /\ UNCHANGED grouping
       ELSE LET table_groups == IF group_by_type
                                THEN group_tables_by_type(tables, batch_size)
                                ELSE group_tables_by_size(tables, batch_size)
            IN  /\ futures' = <<>>
                /\ collected' = <<>>
                /\ run_status' = "submitting"
                /\ grouping' = Some([tables |-> tables, group_by_type |-> group_by_type,
                                     batch_size |-> batch_size,
                                     table_groups |-> table_groups])
    /\ UNCHANGED clock
    /\ UNCHANGED <<detectorVars, cacheVars, incrementalVars, schemaVars, data_test, enhancedVars>>

\* lines 65-68: one turn of the loop over table_groups: executor.submit for
\* the next group gives a future no worker has picked up yet.  After the
\* last group the caller's thread goes on to as_completed (line 72).
Submit(nature) ==
    LET table_groups == grouping[1].table_groups
        i == Len(futures) + 1
    IN  /\ run_status = "submitting"
        /\ futures' = Append(futures,
                [group |-> table_groups[i], nature |-> nature,
                 state |-> "queued", started |-> 0, finished |-> 0,
                 result |-> <<>>, collected |-> FALSE])
        /\ run_status' = IF i = Len(table_groups) THEN "collecting" ELSE "submitting"
        /\ UNCHANGED <<collected, clock>>
        /\ UNCHANGED <<detectorVars, cacheVars, incrementalVars, schemaVars, data_test, grouping, enhancedVars>>

\* the pool's worker threads run while the caller's thread submits and
\* while it collects
Working == run_status \in {"submitting", "collecting"}

\* a worker thread of the pool takes the oldest queued task
StartTask(i) ==
    /\ Working
    /\ futures[i].state = "queued"
    /\ \A j \in DOMAIN futures : j < i => futures[j].state # "queued"
    /\ Cardinality({j \in DOMAIN futures : futures[j].state = "running"}) < max_workers
    /\ futures' = [futures EXCEPT ![i].state = "running", ![i].started = clock]
    /\ UNCHANGED <<collected, run_status, clock>>
    /\ UNCHANGED <<detectorVars, cacheVars, incrementalVars, schemaVars, data_test, grouping, enhancedVars>>

\* lines 171-186: _process_group_with_timeout comes back and the future is done
FinishTask(i) ==
    /\ Working
    /\ futures[i].state = "running"
    /\ futures[i].nature.terminates
    /\ clock >= futures[i].started + futures[i].nature.duration
    /\ futures' = [futures EXCEPT
            ![i].state = "done",
            ![i].finished = clock,
            ![i].result = process_group_with_timeout(futures[i].group, futures[i].nature)]
    /\ UNCHANGED <<collected, run_status, clock>>
    /\ UNCHANGED <<detectorVars, cacheVars, incrementalVars, schemaVars, data_test, grouping, enhancedVars>>

\* time passes until the next running task is due
Advance ==
    /\ Working
    /\ LET Due == {futures[i].started + futures[i].nature.duration : i \in
                    {j \in DOMAIN futures :
                        /\ futures[j].state = "running"
                        /\ futures[j].nature.terminates
                        /\ futures[j].started + futures[j].nature.duration > clock}}
       IN  /\ Due # {}
           /\ clock' = CHOOSE t \in Due : \A u \in Due : t <= u
    /\ UNCHANGED <<futures, collected, run_status>>
    /\ UNCHANGED <<detectorVars, cacheVars, incrementalVars, schemaVars, data_test, grouping, enhancedVars>>

\* lines 72-77: as_completed yields a future that is done, in completion
\* order; future.result(timeout=...) on a done future returns at once, and
\* the caller's thread extends all_relationships
CollectResult(i) ==
    /\ run_status = "collecting"
    /\ futures[i].state = "done"
    /\ ~futures[i].collected
    /\ collected' = Extend(collected, futures[i].result)
    /\ futures' = [futures EXCEPT ![i].collected = TRUE]
    /\ UNCHANGED <<run_status, clock>>
    /\ UNCHANGED <<detectorVars, cacheVars, incrementalVars, schemaVars, data_test, grouping, enhancedVars>>

\* lines 72, 83-84: as_completed is exhausted once every future was yielded,
\* the executor's with block ends and all_relationships is returned
Return ==
    /\ run_status = "collecting"
    /\ \A i \in DOMAIN futures : futures[i].collected
    /\ run_status' = "returned"
    /\ UNCHANGED <<futures, collected, clock>>
    /\ UNCHANGED <<detectorVars, cacheVars, incrementalVars, schemaVars, data_test, grouping, enhancedVars>>

NextParallel ==
    \/ \E tables \in ParallelTableLists, enable_parallel \in BOOLEAN,
          group_by_type \in BOOLEAN, batch_size \in BatchSizes :
            ProcessTablesParallel(tables, enable_parallel, group_by_type, batch_size)
    \/ \E nature \in TaskNatures : Submit(nature)
    \/ \E i \in DOMAIN futures : StartTask(i)
    \/ \E i \in DOMAIN futures : FinishTask(i)
    \/ Advance
    \/ \E i \in DOMAIN futures : CollectResult(i)
    \/ Return

StartParallel == InitDetector /\ InitCache /\ InitIncremental /\ InitParallel /\ InitSchema /\ InitTester

SpecParallel == StartParallel /\ [][NextParallel]_vars

\* the thread pool runs a queued task when a worker is free, a task that
\* terminates finishes, and the caller's thread takes every completed future
SpecParallelFair == SpecParallel /\ WF_vars(NextParallel)

\* a group task is done while the caller's thread has not yet submitted the
\* last group
DoneWhileSubmitting ==
    /\ run_status = "submitting"
    /\ \E i \in DOMAIN futures : futures[i].state = "done"

\* the number of times r is produced by the group tasks of fs that complete
\* without error
RECURSIVE ProducedCount(_, _)
ProducedCount(fs, r) ==
    IF fs = <<>> THEN 0
    ELSE (IF Raises(Head(fs).group, Head(fs).nature) THEN 0
          ELSE Occurrences(process_func(Head(fs).group).relationships, r))
            + ProducedCount(Tail(fs), r)

AllProduced ==
    UNION {Range(process_func(futures[i].group).relationships) : i \in DOMAIN futures}

\* C11: when the group tasks of process_tables_parallel have been collected
\* and the call returns, the returned list holds every relationship of every
\* group task that completed without error exactly as often as those tasks
\* produced it, whatever the completion order, and nothing of a group task
\* that raised; a raising group task never makes the call raise.
C11_CompletedGroupsCollected ==
    futures # <<>> =>
        /\ run_status \in {"submitting", "collecting", "returned"}
        /\ run_status = "returned" =>
              \A r \in AllProduced \cup Range(collected) :
                  Occurrences(collected, r) = ProducedCount(futures, r)

\* a run has returned in which one group task raised and two others, both
\* with relationships, were collected against their submission order
C11_Witness ==
    /\ run_status = "returned"
    /\ \E k \in DOMAIN futures : Raises(futures[k].group, futures[k].nature)
    /\ \E i, j \in DOMAIN futures :
          /\ i < j
          /\ futures[i].result # <<>>
          /\ futures[j].result # <<>>
          /\ collected[1] = futures[j].result[1]
          /\ collected[Len(collected)] \in Range(futures[i].result)

\* some group task of the run never terminates while another one completes
\* with relationships
HungGroup ==
    /\ \E i \in DOMAIN futures : ~futures[i].nature.terminates
    /\ \E j \in DOMAIN futures : futures[j].collected /\ futures[j].result # <<>>

\* C12: once the group tasks are submitted, process_tables_parallel
\* eventually returns, whether or not every group task terminates.
C12_EventuallyReturns == (run_status = "collecting") ~> (run_status = "returned")

\* a group task that finished after timeout_seconds contributes nothing to
\* the returned list
C12_LateGroupDropped ==
    run_status = "returned" =>
        \A i \in DOMAIN futures :
            futures[i].finished - futures[i].started > timeout_seconds
                => \A r \in Range(futures[i].result) : r \notin Range(collected)

\* ---------------------------------------------------------------------------
\* SchemaAnalyzer (schema_analyzer.py): the annotation of a table's columns
\* ---------------------------------------------------------------------------

KeyTypes == {"INTEGER", "INT64", "STRING", "BYTES"}

\* _is_primary_key_candidate
is_primary_key_candidate(column) ==
    /\ column.mode # "REPEATED"
    /\ ~(column.mode = "NULLABLE" /\ column.name # <<"id">>)
    /\ column.data_type \in KeyTypes

\* _is_data_warehouse_primary_key
is_data_warehouse_primary_key(column, table_id) ==
    LET prefix == IF Len(table_id) >= 2 THEN Head(table_id) ELSE ""
    IN  CASE prefix = "dim" ->
                \/ column.name \in {<<"id">>, <<"key">>, <<"sk">>, <<"surrogate", "key">>}
                \/ EndsWith(column.name, "id")
          [] prefix = "fact" -> EndsWith(column.name, "id")
          [] prefix \in {"bridge", "l"} ->
                column.name \in {<<"id">>, <<"key">>, <<"relationship", "id">>}
          [] OTHER -> FALSE

\* identify_primary_key with primary_key_patterns
identify_primary_key(column, table_id) ==
    \/ /\ \/ column.name = <<"id">>
          \/ \E suffix \in {"id", "key", "pk"} : EndsWith(column.name, suffix)
          \/ Len(column.name) >= 2 /\ Head(column.name) = "pk"
       /\ is_primary_key_candidate(column)
    \/ is_data_warehouse_primary_key(column, table_id)

\* a mutation of _is_foreign_key_candidate: the input's flag is trusted
\* where the code recomputes identify_primary_key
FlagTrustingCandidate(column, table_id) ==
    /\ column.mode # "REPEATED"
    /\ ~column.is_primary_key
    /\ column.data_type \in KeyTypes

\* _is_foreign_key_candidate
is_foreign_key_candidate(column, table_id) ==
    /\ column.mode # "REPEATED"
    /\ ~identify_primary_key(column, table_id)
    /\ column.data_type \in KeyTypes

\* a mutation of identify_foreign_key: the name pattern alone decides
PatternOnlyForeignKey(column, table_id) ==
    \/ \E suffix \in {"id", "fk", "key"} : EndsWith(column.name, suffix)
    \/ Len(column.name) >= 2 /\ Head(column.name) = "fk"

\* identify_foreign_key with foreign_key_patterns
identify_foreign_key(column, table_id) ==
    /\ \/ \E suffix \in {"id", "fk", "key"} : EndsWith(column.name, suffix)
       \/ Len(column.name) >= 2 /\ Head(column.name) = "fk"
    /\ is_foreign_key_candidate(column, table_id)

\* parse_table_schema with extract_column_info
parse_table_schema(schema) ==
    [schema EXCEPT !.columns =
        [j \in DOMAIN schema.columns |->
            LET column == schema.columns[j]
            IN  ColumnInfo(column.name, column.data_type, column.mode,
                           identify_primary_key(column, schema.table_id),
                           identify_foreign_key(column, schema.table_id))]]

\* ---------------------------------------------------------------------------
\* Tables fetched from BigQuery, annotated and handed to detect_relationships
\* ---------------------------------------------------------------------------

MaxTables == 2

MaxColumns == 2

\* the columns a fetched table is made of
ColumnPool ==
    { ColumnInfo(<<"customer", "id">>, "STRING", "REQUIRED", TRUE, FALSE),
      ColumnInfo(<<"customer", "id">>, "STRING", "REQUIRED", FALSE, FALSE),
      ColumnInfo(<<"customer", "id">>, "STRING", "NULLABLE", TRUE, TRUE),
      ColumnInfo(<<"name">>, "STRING", "NULLABLE", FALSE, FALSE),
      ColumnInfo(<<"sale", "id">>, "STRING", "REQUIRED", TRUE, FALSE) }

TablePool == {<<"dim", "customer">>, <<"fact", "sales">>, <<"customers">>}

\* column lists of up to MaxColumns columns with distinct names
ColumnLists ==
    {columns \in UNION {[1..n -> ColumnPool] : n \in 0..MaxColumns} :
        \A i, j \in DOMAIN columns : columns[i].name = columns[j].name => i = j}

\* a table's schema arrives from the connector
FetchTable(limit) ==
    /\ Len(analyzed) < limit
    /\ detected = None
    /\ \E table_id \in TablePool, columns \in ColumnLists :
          /\ table_id \notin TableIdsOf(analyzed)
          /\ fetched' = Append(fetched, [table_id |-> table_id, columns |-> columns])
          /\ analyzed' = Append(analyzed, [table_id |-> table_id, columns |-> columns])
          /\ parsed' = Append(parsed, 0)
    /\ UNCHANGED detected
    /\ UNCHANGED <<detectorVars, cacheVars, incrementalVars, parallelVars, data_test, grouping, enhancedVars>>

\* analyzer.parse_table_schema(table), main.py line 242
ParseTableSchema(i, limit) ==
    /\ parsed[i] < limit
    /\ detected = None
    /\ analyzed' = [analyzed EXCEPT ![i] = parse_table_schema(analyzed[i])]
    /\ parsed' = [parsed EXCEPT ![i] = parsed[i] + 1]
    /\ UNCHANGED <<fetched, detected>>
    /\ UNCHANGED <<detectorVars, cacheVars, incrementalVars, parallelVars, data_test, grouping, enhancedVars>>

\* The custom rules main.py builds the detector with (lines 182-199): none,
\* or a rule for customers.customer_id -> dim_customer.customer_id and the
\* naming patterns that send x_id to the table xs
SchemaCustomRules ==
    { None,
      Some(CustomRulesConfig(
            << CustomRelationshipRule(<<"customers">>, <<"customer", "id">>,
                                      <<"dim", "customer">>, <<"customer", "id">>,
                                      "one_to_one", 10) >>,
            << NamingPattern("^(.+)_id$", "s", 8), NamingPattern(".+_id", "s", 8) >>)) }

\* detector.detect_relationships(tables, ...)
DetectRelationships(enable_fk_detection, enable_naming_convention_detection, custom_rules) ==
    /\ detected = None
    /\ detected' = Some(detect_relationships_on(analyzed, enable_fk_detection,
                                                enable_naming_convention_detection,
                                                custom_rules))
    /\ UNCHANGED <<fetched, analyzed, parsed>>
    /\ UNCHANGED <<detectorVars, cacheVars, incrementalVars, parallelVars, data_test, grouping, enhancedVars>>

NextAnnotate ==
    \/ FetchTable(1)
    \/ \E i \in DOMAIN analyzed : ParseTableSchema(i, 2)

StartSchema == InitDetector /\ InitCache /\ InitIncremental /\ InitParallel /\ InitSchema /\ InitTester

SpecAnnotate == StartSchema /\ [][NextAnnotate]_vars

NextSchema ==
    \/ FetchTable(MaxTables)
    \/ \E i \in DOMAIN analyzed : ParseTableSchema(i, 1)
    \/ \E enable_fk_detection, enable_naming_convention_detection \in BOOLEAN :
          \E custom_rules \in SchemaCustomRules :
            DetectRelationships(enable_fk_detection, enable_naming_convention_detection,
                                custom_rules)

SpecSchema == StartSchema /\ [][NextSchema]_vars

\* C13: detect_relationships never raises on tables with well-formed
\* columns; every generator, the data-type generator included, returns
\* normally whatever the column names are.
C13_NeverRaises == detected # None => ~detected[1].raised

\* the tables of the scenario: dim_customer(customer_id PK, name) and
\* fact_sales(sale_id PK, customer_id)
ScenarioTables ==
    << [table_id |-> <<"dim", "customer">>,
        columns |-> <<ColumnInfo(<<"customer", "id">>, "STRING", "REQUIRED", TRUE, FALSE),
                      ColumnInfo(<<"name">>, "STRING", "NULLABLE", FALSE, FALSE)>>],
       [table_id |-> <<"fact", "sales">>,
        columns |-> <<ColumnInfo(<<"sale", "id">>, "STRING", "REQUIRED", TRUE, FALSE),
                      ColumnInfo(<<"customer", "id">>, "STRING", "REQUIRED", FALSE, FALSE)>>] >>

\* C14: on the scenario's tables detect_relationships returns a many-to-one
\* relationship from fact_sales.customer_id to dim_customer.customer_id with
\* confidence of at least 0.8, found by enhanced_pk_fk or foreign_key.
C14_Scenario ==
    (analyzed = ScenarioTables /\ detected # None) =>
        /\ ~detected[1].raised
        /\ \E i \in DOMAIN detected[1].relationships :
              LET r == detected[1].relationships[i]
              IN  /\ r.source_table = <<"fact", "sales">>
                  /\ r.source_column = <<"customer", "id">>
                  /\ r.target_table = <<"dim", "customer">>
                  /\ r.target_column = <<"customer", "id">>
                  /\ r.relationship_type = "many_to_one"
                  /\ r.confidence >= 8
                  /\ r.detection_method \in {"enhanced_pk_fk", "foreign_key"}

\* C15: every relationship that the data test of a run gives a verdict on
\* leaves with confidence min(1.0, c + 0.2) and a kind tagged _data_validated
\* when the overall test confidence reaches the threshold, and with
\* confidence max(0.1, c - 0.3) and its kind unchanged otherwise; nothing
\* else of it changes, and no relationship is tested twice in a run.
C15_AdjustedByVerdict ==
    \A n \in DOMAIN log :
        /\ \A i, j \in DOMAIN log[n].trace :
              log[n].trace[i].input = log[n].trace[j].input => i = j
        /\ \A i \in DOMAIN log[n].trace :
              LET input == log[n].trace[i].input
                  output == log[n].trace[i].output
                  reached == AtLeast(log[n].trace[i].outcome.overall_confidence,
                                     log[n].trace[i].confidence_threshold)
                  up == IF input.confidence + 2 > 10 THEN 10 ELSE input.confidence + 2
                  down == IF input.confidence - 3 < 1 THEN 1 ELSE input.confidence - 3
              IN  log[n].trace[i].branch \in {"passed", "failed"} =>
                    IF reached
                    THEN /\ output.confidence = up
                         /\ output.relationship_type \notin RelationshipType
                         /\ output.relationship_type \in
                                CASE input.relationship_type = "many_to_one"
                                        -> {"many_to_one_data_validated",
                                            "RelationshipType.MANY_TO_ONE_data_validated"}
                                  [] input.relationship_type = "one_to_one"
                                        -> {"one_to_one_data_validated",
                                            "RelationshipType.ONE_TO_ONE_data_validated"}
                                  [] OTHER -> {}
                         /\ [output EXCEPT !.confidence = 0, !.relationship_type = ""]
                                = [input EXCEPT !.confidence = 0, !.relationship_type = ""]
                    ELSE output = [input EXCEPT !.confidence = down]

\* a run in which a test confidence exactly at the threshold raised a
\* relationship, and a run in which sampled values gave a confidence below
\* the threshold and the relationship was lowered
C15_Witness ==
    /\ \E n \in DOMAIN log : \E i \in DOMAIN log[n].trace :
          /\ log[n].trace[i].branch = "passed"
          /\ 10 * log[n].trace[i].outcome.overall_confidence[1]
                = log[n].trace[i].confidence_threshold
                    * log[n].trace[i].outcome.overall_confidence[2]
          /\ log[n].trace[i].output.confidence = log[n].trace[i].input.confidence + 2
    /\ \E n \in DOMAIN log : \E i \in DOMAIN log[n].trace :
          /\ log[n].trace[i].branch = "failed"
          /\ log[n].trace[i].outcome.overall_confidence[1] > 0
          /\ log[n].trace[i].output.confidence = log[n].trace[i].input.confidence - 3

\* ---------------------------------------------------------------------------
\* DataRelationshipTester on sampled values (data_relationship_tester.py).
\* A score is the fraction <<numerator, denominator>> that the code divides.
\* ---------------------------------------------------------------------------

\* The tables and the relationships of the tests
TesterTables ==
    [table_id \in {Name("a"), Name("b")} |->
        IF table_id = Name("a")
        THEN DefaultTable(Name("a"),
                <<ColumnInfo(<<"b", "id">>, "INTEGER", "NULLABLE", FALSE, TRUE)>>)
        ELSE DefaultTable(Name("b"),
                <<ColumnInfo(<<"id">>, "INTEGER", "REQUIRED", TRUE, FALSE)>>)]

TesterRelationships ==
    { Relationship(Name("a"), <<"b", "id">>, Name("b"), <<"id">>, "many_to_one", 8,
                   "foreign_key", FALSE),
      Relationship(Name("b"), <<"id">>, Name("a"), <<"b", "id">>, "many_to_one", 9,
                   "enhanced_pk_fk", FALSE) }

\* the calls of test_relationship_with_data made on one tester, one after
\* the other or overlapping
MaxTests == 2

\* the tests that have not returned
UnderWay == {i \in DOMAIN data_test : data_test[i].at # "done"}

\* What a query of the tests can come back with: any of the samples, or an
\* exception, for the first test of a tester; no rows, one row, two rows or
\* an exception once a second test has begun
TesterAnswers ==
    IF Len(data_test) > 1
    THEN {Fetch("values", <<>>), Fetch("values", <<1>>), Fetch("values", <<1, 2>>),
          Fetch("fetch_raises", <<>>)}
    ELSE {Fetch("values", values) : values \in Samples} \cup {Fetch("fetch_raises", <<>>)}

\* no call of test_relationship_with_data is under way
TesterIdle == UnderWay = {}

\* a call of test_relationship_with_data and what it holds; at is where
\* it is: about to fetch the sample of the source or the target column
\* ("source", "target"), waiting for the query of one of them
\* ("source_query", "target_query"), or returned ("done")
DataTest(relationship, at, source_sample, target_sample, result) ==
    [relationship |-> relationship, at |-> at, source_sample |-> source_sample,
     target_sample |-> target_sample, result |-> result]

\* lines 71-93: the two samples are there, and the test returns its result
TestDone(test) ==
    [test EXCEPT
        !.at = "done",
        !.result = Some(test_relationship_with_data(test.relationship,
                            TesterTables[test.relationship.source_table],
                            TesterTables[test.relationship.target_table],
                            test.source_sample, test.target_sample[1]))]

\* test_relationship_with_data, lines 57-93, from where the test is to the
\* query it has to wait for, or to its end: [test, cache].  _get_sample_data
\* answers from the sample cache, sends the query, or comes back empty for
\* want of a connector.
RECURSIVE TestFrom(_, _, _)
TestFrom(test, cache, has_connector) ==
    LET Source(got) ==
            IF got.fetched = "query"
            THEN [test |-> [test EXCEPT !.at = "source_query"], cache |-> cache]
            ELSE TestFrom([test EXCEPT !.at = "target",
                                       !.source_sample = got.sample_data],
                          got.cache, has_connector)
        Target(got) ==
            IF got.fetched = "query"
            THEN [test |-> [test EXCEPT !.at = "target_query"], cache |-> cache]
            ELSE [test |-> TestDone([test EXCEPT
                                        !.target_sample = Some(got.sample_data)]),
                  cache |-> got.cache]
    IN  IF test.at = "source"
        THEN Source(get_sample_data(cache, test.relationship.source_table,
                                    test.relationship.source_column, has_connector))
        ELSE Target(get_sample_data(cache, test.relationship.target_table,
                                    test.relationship.target_column, has_connector))

\* _get_sample_data, lines 121-133, and on: the query a test waits for has
\* come back with answer; the rows are cached, and the test goes on to its
\* next query or to its end: [test, cache]
TestAnswered(test, cache, has_connector, answer) ==
    LET Source(got) ==
            TestFrom([test EXCEPT !.at = "target", !.source_sample = got.sample_data],
                     got.cache, has_connector)
        Target(got) ==
            [test |-> TestDone([test EXCEPT !.target_sample = Some(got.sample_data)]),
             cache |-> got.cache]
    IN  IF test.at = "source_query"
        THEN Source(query_returns(cache, test.relationship.source_table,
                                  test.relationship.source_column, answer))
        ELSE Target(query_returns(cache, test.relationship.target_table,
                                  test.relationship.target_column, answer))

\* __init__, lines 30-40: a new tester, with a connector or without
NewTester(has_connector) ==
    /\ TesterIdle
    /\ connector' = has_connector
    /\ sample_cache' = EmptyMap
    /\ data_test' = None
    /\ UNCHANGED <<detectorVars, cacheVars, incrementalVars, parallelVars, schemaVars, grouping, config, waiting, cleared>>

\* test_relationship_with_data, lines 42-93: a test begins, while the tests
\* begun before it have returned or wait for a query, and runs until it has
\* to wait for the query of a sample (line 121); with both samples in the
\* sample cache, or without a connector, it returns in this step
TestRelationshipWithData(relationship) ==
    LET Went(went) ==
            /\ data_test' = Append(data_test, went.test)
            /\ sample_cache' = went.cache
    IN  /\ Len(data_test) < MaxTests
        /\ Went(TestFrom(DataTest(relationship, "source", <<>>, None, None),
                         sample_cache, connector))
        /\ UNCHANGED <<detectorVars, cacheVars, incrementalVars, parallelVars, schemaVars, grouping, config, connector, waiting, cleared>>

\* _get_sample_data, lines 121-133, and test_relationship_with_data on from
\* there: the query the i-th test waits for comes back with rows or raises,
\* the rows are written to the sample cache as the other tests have left
\* it, and the test runs until it has to wait for the next query, or returns
TesterQueryReturns(i, answer) ==
    LET Went(went) ==
            /\ data_test' = [data_test EXCEPT ![i] = went.test]
            /\ sample_cache' = went.cache
    IN  /\ data_test[i].at \in {"source_query", "target_query"}
        /\ Went(TestAnswered(data_test[i], sample_cache, connector, answer))
        /\ UNCHANGED <<detectorVars, cacheVars, incrementalVars, parallelVars, schemaVars, grouping, config, connector, waiting, cleared>>

NextTester ==
    \/ \E has_connector \in BOOLEAN : NewTester(has_connector)
    \/ \E relationship \in TesterRelationships : TestRelationshipWithData(relationship)
    \/ \E i \in DOMAIN data_test :
            \E answer \in TesterAnswers : TesterQueryReturns(i, answer)

StartTester == InitDetector /\ InitCache /\ InitIncremental /\ InitParallel /\ InitSchema /\ InitTester

SpecTester == StartTester /\ [][NextTester]_vars

\* C16: the referential integrity of a test is the number of distinct source
\* values that occur among the target values, divided by the number of
\* distinct source values, and 0 when there are no source samples; so it is
\* 1 when every source value occurs among the target values, 0 when the
\* samples are disjoint, and 2/3 for the source values 1, 2, 3 and the target
\* values 2, 3, 4.
C16_ReferentialIntegrity ==
    \A n \in DOMAIN data_test :
        data_test[n].result # None =>
            LET source == data_test[n].source_sample
                target == data_test[n].target_sample[1]
                integrity == data_test[n].result[1].referential_integrity
                distinct == {v \in 1..4 : \E i \in DOMAIN source : source[i] = v}
                found == {v \in distinct : \E j \in DOMAIN target : target[j] = v}
            IN  /\ integrity[2] > 0
                /\ source = <<>> => integrity[1] = 0
                /\ source # <<>> =>
                        integrity[1] * Cardinality(distinct)
                            = Cardinality(found) * integrity[2]
                /\ (source # <<>> /\ found = distinct) => integrity[1] = integrity[2]
                /\ found = {} => integrity[1] = 0
                /\ (source = <<1, 2, 3>> /\ target = <<2, 3, 4>>) =>
                        3 * integrity[1] = 2 * integrity[2]

\* a test whose source sample repeats a value and is partly found in the
\* target sample, and a test that returned with a partly found source
\* sample while a test begun before it still waits for a query
C16_Witness ==
    /\ \E n \in DOMAIN data_test :
          /\ data_test[n].result # None
          /\ Len(data_test[n].source_sample)
                > Cardinality(Range(data_test[n].source_sample))
          /\ data_test[n].result[1].referential_integrity[1] > 0
          /\ data_test[n].result[1].referential_integrity[1]
                < data_test[n].result[1].referential_integrity[2]
    /\ \E n, m \in DOMAIN data_test :
          /\ m < n
          /\ data_test[m].at \in {"source_query", "target_query"}
          /\ data_test[n].result # None
          /\ data_test[n].result[1].referential_integrity[1] > 0
          /\ data_test[n].result[1].referential_integrity[1]
                < data_test[n].result[1].referential_integrity[2]

\* the is_primary_key and is_foreign_key flags of a table's columns
FlagsOf(schema) ==
    [j \in DOMAIN schema.columns |->
        <<schema.columns[j].is_primary_key, schema.columns[j].is_foreign_key>>]

\* C17: applying parse_table_schema to a table a second time leaves the
\* is_primary_key and is_foreign_key flag of every column as the first
\* application set them, whatever flags the columns carried on input.
C17_Idempotent ==
    [][\A i \in DOMAIN analyzed :
            (i \in DOMAIN parsed' /\ parsed[i] = 1 /\ parsed'[i] = 2) =>
                /\ FlagsOf(analyzed'[i]) = FlagsOf(analyzed[i])
                /\ FlagsOf(analyzed'[i]) = FlagsOf(parse_table_schema(fetched[i]))]_vars

\* a table annotated twice with a column that arrived flagged as both keys
\* and left the annotator as a foreign key only, next to a primary key
C17_Witness ==
    \E i \in DOMAIN analyzed :
        /\ parsed[i] = 2
        /\ \E j \in DOMAIN analyzed[i].columns : analyzed[i].columns[j].is_primary_key
        /\ \E j \in DOMAIN analyzed[i].columns :
                /\ fetched[i].columns[j].is_primary_key
                /\ fetched[i].columns[j].is_foreign_key
                /\ analyzed[i].columns[j].is_foreign_key
                /\ ~analyzed[i].columns[j].is_primary_key

\* C18: once parse_table_schema has processed a table, no column of the
\* table is flagged both is_primary_key and is_foreign_key.
C18_NotBothKeys ==
    \A i \in DOMAIN analyzed :
        parsed[i] >= 1 =>
            \A j \in DOMAIN analyzed[i].columns :
                ~(analyzed[i].columns[j].is_primary_key
                  /\ analyzed[i].columns[j].is_foreign_key)

\* an annotated table with a primary-key column and a foreign-key column,
\* one of which arrived flagged as both
C18_Witness ==
    \E i \in DOMAIN analyzed :
        /\ parsed[i] = 1
        /\ \E j, k \in DOMAIN analyzed[i].columns :
                /\ analyzed[i].columns[j].is_primary_key
                /\ analyzed[i].columns[k].is_foreign_key
        /\ \E j \in DOMAIN fetched[i].columns :
                fetched[i].columns[j].is_primary_key /\ fetched[i].columns[j].is_foreign_key

\* ---------------------------------------------------------------------------
\* An IncrementalProcessor constructed on a state file that may be damaged
\* (incremental_processor.py lines 18-49), and its first selection
\* ---------------------------------------------------------------------------

\* the tables of the dataset: one table of the pool with its columns
StateTables ==
    {DefaultTable(table_id, columns) : table_id \in TablePool, columns \in ColumnLists}

\* the state a run saved after processing the table
SavedFor(table) ==
    StateDocument({table.table_id}, <<>>,
                  Put(EmptyMap, table.table_id, get_table_checksum(table)))

\* a document that names a processed table and a stored relationship whose
\* kind the Relationship model rejects (line 39 raises after line 38 set
\* processed_tables)
RejectedDocument ==
    StateDocument({<<"fact", "sales">>},
        <<[table |-> <<"fact", "sales">>,
           relationships |->
             <<Relationship(<<"fact", "sales">>, <<"customer", "id">>,
                            <<"dim", "customer">>, <<"customer", "id">>,
                            DataValidated("many_to_one", FALSE), 10, "enhanced_pk_fk", FALSE)>>]>>,
        EmptyMap)

\* a document that names a processed table and holds null for the checksums
NullChecksumsDocument == StateDocument({<<"fact", "sales">>}, <<>>, NullChecksums)

\* documents on which lines 35-43 raise
RaisingDocuments == {Unparsable("truncated"), Unparsable("array"), RejectedDocument}

CorruptDocuments == RaisingDocuments \cup {NullChecksumsDocument}

StateFiles ==
    CorruptDocuments
        \cup {EmptyState}
        \cup {SavedFor(DefaultTable(<<"fact", "sales">>, columns)) :
                columns \in {<<>>, <<ColumnInfo(<<"name">>, "STRING", "NULLABLE", FALSE, FALSE)>>}}

\* get_tables_to_process, lines 116-136, with the exception of
\* is_table_changed (line 112) when table_checksums is None: it is called
\* for the first table of the list, by the condition of line 128 when the
\* table is in processed_tables and by the message of lines 132-133 when it
\* is not
select_tables(all_tables, processed, checksums) ==
    IF checksums = NullChecksums /\ all_tables # <<>>
    THEN [raised |-> TRUE, tables |-> <<>>]
    ELSE [raised |-> FALSE, tables |-> get_tables_to_process(all_tables, processed, checksums)]

\* the state file as the process finds it
WriteStateFile(document) ==
    /\ log = <<>>
    /\ state_file = None
    /\ state_file' = Some(document)
    /\ UNCHANGED <<table_schemas, processed_tables, table_checksums, relationship_graph, log>>

\* IncrementalProcessor(state_file), lines 18-29
NewIncrementalProcessor ==
    LET state == load_state(state_file)
    IN  /\ log = <<>>
        /\ processed_tables' = state.processed_tables
        /\ table_checksums' = state.table_checksums
        /\ relationship_graph' = state.relationship_graph
        /\ log' = <<[loaded |-> state_file]>>
        /\ UNCHANGED <<table_schemas, state_file>>

\* the following run asks for the tables to process
GetTablesToProcess(all_tables) ==
    /\ Len(log) = 1
    /\ log' = Append(log, [all_tables |-> all_tables,
                           selection |-> select_tables(all_tables, processed_tables,
                                                       table_checksums)])
    /\ UNCHANGED <<table_schemas, processed_tables, table_checksums, relationship_graph,
                   state_file>>

NextState ==
    /\ \/ \E document \in StateFiles : WriteStateFile(document)
       \/ NewIncrementalProcessor
       \/ \E table \in StateTables : GetTablesToProcess(<<table>>)
    /\ UNCHANGED <<detectorVars, cacheVars, parallelVars, schemaVars, data_test, grouping, enhancedVars>>

StartState == InitDetector /\ InitCache /\ InitIncremental /\ InitParallel /\ InitSchema /\ InitTester

SpecState == StartState /\ [][NextState]_vars

\* C19: when the state file is unreadable or corrupt, constructing the
\* IncrementalProcessor does not raise and leaves it with completely empty
\* state (no processed table, no checksum, no stored relationship), and the
\* following run selects every table.
C19_CorruptStateIsEmpty ==
    (log # <<>> /\ log[1].loaded # None /\ log[1].loaded[1] \in CorruptDocuments) =>
        /\ processed_tables = {}
        /\ table_checksums = EmptyMap
        /\ relationship_graph = <<>>
        /\ Len(log) = 2 =>
                /\ ~log[2].selection.raised
                /\ log[2].selection.tables = log[2].all_tables

\* For the documents on which the load raises, the state is empty after the
\* load, processed_tables included, and the following run selects every
\* table.
RejectedStateIsEmpty ==
    (log # <<>> /\ log[1].loaded # None /\ log[1].loaded[1] \in RaisingDocuments) =>
        /\ processed_tables = {}
        /\ table_checksums = EmptyMap
        /\ relationship_graph = <<>>
        /\ Len(log) = 2 =>
                /\ ~log[2].selection.raised
                /\ log[2].selection.tables = log[2].all_tables

\* C20: after save_state, a new IncrementalProcessor constructed on the same
\* state file has the processed tables, the table checksums and the
\* per-table relationship lists of the processor that saved, stored
\* relationships whose kind data validation tagged included.
C20_StateRoundTrip ==
    [][NewProcess =>
            /\ processed_tables' = processed_tables
            /\ table_checksums' = table_checksums
            /\ relationship_graph' = relationship_graph]_vars

\* ---------------------------------------------------------------------------
\* A long-lived IncrementalProcessor: tables are marked processed, cleared by
\* pattern and asked for (incremental_processor.py lines 102-169, 206-228).
\* log keeps the calls in order.
\* ---------------------------------------------------------------------------

MaxEvents == 3

\* dim_customer with one column, as first seen and with its name, type, mode
\* or one of its flags changed; fact_sales as first seen, with a flag
\* changed, and the table of that name and those columns of another dataset
IncrementalTables ==
    {DefaultTable(<<"dim", "customer">>, <<column>>) :
        column \in { ColumnInfo(<<"customer", "id">>, "STRING", "REQUIRED", FALSE, FALSE),
                     ColumnInfo(<<"customer", "key">>, "STRING", "REQUIRED", FALSE, FALSE),
                     ColumnInfo(<<"customer", "id">>, "INTEGER", "REQUIRED", FALSE, FALSE),
                     ColumnInfo(<<"customer", "id">>, "STRING", "NULLABLE", FALSE, FALSE),
                     ColumnInfo(<<"customer", "id">>, "STRING", "REQUIRED", TRUE, FALSE),
                     ColumnInfo(<<"customer", "id">>, "STRING", "REQUIRED", FALSE, TRUE) }}
    \cup
    {DefaultTable(<<"fact", "sales">>, <<column>>) :
        column \in { ColumnInfo(<<"sale", "id">>, "STRING", "REQUIRED", FALSE, FALSE),
                     ColumnInfo(<<"sale", "id">>, "STRING", "REQUIRED", TRUE, FALSE) }}
    \cup
    {TableSchema(<<"fact", "sales">>, "d2", "p",
                 <<ColumnInfo(<<"sale", "id">>, "STRING", "REQUIRED", FALSE, FALSE)>>)}

\* the dataset handed to get_tables_to_process: dim_customer, then fact_sales
IncrementalTableLists ==
    {<<dim, fact>> : dim \in {t \in IncrementalTables : t.table_id = <<"dim", "customer">>},
                     fact \in {t \in IncrementalTables : t.table_id = <<"fact", "sales">>}}

\* None, "dim" and "sale"
StatePatterns == {None, <<"d", "i", "m">>, <<"s", "a", "l", "e">>}

Event(op, tables, table_pattern, selected) ==
    [op |-> op, tables |-> tables, table_pattern |-> table_pattern, selected |-> selected]

\* mark_table_processed, lines 160-169
MarkTableProcessed(table) ==
    /\ Len(log) < MaxEvents
    /\ processed_tables' = processed_tables \cup {table.table_id}
    /\ table_checksums' = Put(table_checksums, table.table_id, get_table_checksum(table))
    /\ log' = Append(log, Event("mark", <<table>>, None, <<>>))
    /\ UNCHANGED <<table_schemas, relationship_graph, state_file>>

\* clear_state, lines 206-228 (an empty pattern is false, like None), and
\* the state file save_state writes at its end
ClearState(table_pattern) ==
    LET state == clear_state(processed_tables, relationship_graph, table_checksums,
                             table_pattern)
    IN  /\ Len(log) < MaxEvents
        /\ processed_tables' = state.processed_tables
        /\ relationship_graph' = state.relationship_graph
        /\ table_checksums' = state.table_checksums
        /\ state_file' = Some(state)
        /\ log' = Append(log, Event("clear", <<>>, table_pattern, <<>>))
        /\ UNCHANGED table_schemas

\* get_tables_to_process(all_tables), lines 116-136
TablesToProcess(all_tables) ==
    /\ Len(log) < MaxEvents
    /\ log' = Append(log, Event("select", all_tables, None,
                        get_tables_to_process(all_tables, processed_tables, table_checksums)))
    /\ UNCHANGED <<table_schemas, processed_tables, table_checksums, relationship_graph,
                   state_file>>

NextIncremental ==
    /\ \/ \E table \in IncrementalTables : MarkTableProcessed(table)
       \/ \E table_pattern \in StatePatterns : ClearState(table_pattern)
       \/ \E all_tables \in IncrementalTableLists : TablesToProcess(all_tables)
    /\ UNCHANGED <<detectorVars, cacheVars, parallelVars, schemaVars, data_test, grouping, enhancedVars>>

SpecIncremental == StartState /\ [][NextIncremental]_vars

\* the last call before call k that marked the table id processed and was
\* not followed, before k, by a clear_state that removed the id; 0 if none
LastMark(table_id, k) ==
    LET Removes(j) ==
            /\ log[j].op = "clear"
            /\ \/ log[j].table_pattern = None
               \/ PatternInKey(log[j].table_pattern, table_id)
        marks == {j \in 1..(k - 1) :
                    /\ log[j].op = "mark"
                    /\ log[j].tables[1].table_id = table_id
                    /\ \A c \in (j + 1)..(k - 1) : ~Removes(c)}
    IN  IF marks = {} THEN 0 ELSE CHOOSE j \in marks : \A m \in marks : m <= j

\* what a table's fingerprint is made of: the ids of the table and, for
\* every column description, how many columns have it
Described(table) ==
    LET Of(column) ==
            <<column.name, column.data_type, column.mode, column.is_primary_key,
              column.is_foreign_key>>
        Times(column) ==
            Cardinality({j \in DOMAIN table.columns : Of(table.columns[j]) = Of(column)})
    IN  <<table.table_id, table.project_id, table.dataset_id,
          {<<Of(table.columns[i]), Times(table.columns[i])>> : i \in DOMAIN table.columns}>>

\* C21: get_tables_to_process selects a table if and only if it is not
\* marked processed (never marked, or removed by clear_state since) or the
\* name, type, mode or PK/FK flag of a column differs from what it was when
\* the table was last marked.
C21_SelectedIffNewOrChanged ==
    \A k \in DOMAIN log :
        log[k].op = "select" =>
            \A i \in DOMAIN log[k].tables :
                LET table == log[k].tables[i]
                    mark == LastMark(table.table_id, k)
                IN  (\E s \in DOMAIN log[k].selected : log[k].selected[s] = table)
                        <=> \/ mark = 0
                            \/ Described(log[mark].tables[1]) # Described(table)

\* a selection that leaves out a table marked and unchanged and takes a
\* table marked and changed since in a flag only
C21_Witness ==
    /\ Len(log) = 3
    /\ log[1].op = "mark"
    /\ log[2].op = "mark"
    /\ log[3].op = "select"
    /\ log[3].selected = <<log[3].tables[1]>>
    /\ log[3].tables[2] = log[2].tables[1]
    /\ log[1].tables[1].table_id = <<"dim", "customer">>
    /\ log[1].tables[1].columns[1].is_foreign_key # log[3].tables[1].columns[1].is_foreign_key
    /\ log[1].tables[1].columns[1].name = log[3].tables[1].columns[1].name
    /\ log[1].tables[1].columns[1].data_type = log[3].tables[1].columns[1].data_type
    /\ log[1].tables[1].columns[1].mode = log[3].tables[1].columns[1].mode
    /\ log[1].tables[1].columns[1].is_primary_key = log[3].tables[1].columns[1].is_primary_key

\* a selection after clear_state removed a table that was marked and is
\* unchanged
C21_ClearedSelected ==
    /\ Len(log) = 3
    /\ log[1].op = "mark"
    /\ log[2].op = "clear"
    /\ log[2].table_pattern = <<"d", "i", "m">>
    /\ log[3].op = "select"
    /\ log[3].tables[1] = log[1].tables[1]
    /\ log[3].selected = log[3].tables

\* C22: every column that parse_table_schema flags is_primary_key passes the
\* candidate gate: its mode is not REPEATED, its mode is REQUIRED or its
\* name is exactly id, and its declared type is INTEGER, INT64, STRING or
\* BYTES; also when the table-name-convention rules matched it.
C22_PrimaryKeyPassesGate ==
    \A i \in DOMAIN analyzed :
        parsed[i] >= 1 =>
            \A j \in DOMAIN analyzed[i].columns :
                LET column == analyzed[i].columns[j]
                IN  column.is_primary_key =>
                        /\ column.mode # "REPEATED"
                        /\ column.mode = "REQUIRED" \/ column.name = <<"id">>
                        /\ column.data_type \in {"INTEGER", "INT64", "STRING", "BYTES"}

\* C23: the target column of a relationship that the foreign-key or the
\* naming-convention generator contributed is the first column flagged
\* primary key of the target table if it has one; otherwise it is a column
\* of the source column's type whose name is id, key or pk, a REQUIRED one
\* if there is one; a target table without such a column gives no
\* relationship.
C23_TargetColumnChoice ==
    (detected # None /\ ~detected[1].raised) =>
        \A k \in DOMAIN detected[1].relationships :
            LET r == detected[1].relationships[k]
                source == TableOf(analyzed, r.source_table).columns
                target == TableOf(analyzed, r.target_table).columns
                source_type == source[CHOOSE i \in DOMAIN source :
                                        source[i].name = r.source_column].data_type
                flagged == {i \in DOMAIN target : target[i].is_primary_key}
                named == {i \in DOMAIN target :
                            /\ target[i].data_type = source_type
                            /\ target[i].name \in {<<"id">>, <<"key">>, <<"pk">>}}
            IN  r.detection_method \in {"foreign_key", "naming_convention"} =>
                    IF flagged # {}
                    THEN \E i \in flagged :
                            /\ r.target_column = target[i].name
                            /\ \A j \in flagged : i <= j
                    ELSE \E i \in named :
                            /\ r.target_column = target[i].name
                            /\ (\E j \in named : target[j].mode = "REQUIRED")
                                    => target[i].mode = "REQUIRED"

\* ---------------------------------------------------------------------------
\* The grouping functions of ParallelProcessor on lists of tables
\* (parallel_processor.py lines 86-143)
\* ---------------------------------------------------------------------------

MaxGroupTables == 4

MaxBatchSize == 3

GroupingPool ==
    {ParallelTable(table_id) :
        table_id \in {<<"fact", "s">>, <<"dim", "a">>, <<"DIM", "b">>, <<"Fact", "t">>, <<"x">>}}

GroupingLists == UNION {[1..n -> GroupingPool] : n \in 0..MaxGroupTables}

\* _group_tables_by_type(tables) or _group_tables_by_size(tables) with
\* config.batch_size; a behaviour follows one call
GroupTables(tables, group_by_type, batch_size) ==
    /\ grouping = None
    /\ grouping' = Some([tables |-> tables, group_by_type |-> group_by_type,
                         batch_size |-> batch_size,
                         table_groups |-> IF group_by_type
                                          THEN group_tables_by_type(tables, batch_size)
                                          ELSE group_tables_by_size(tables, batch_size)])
    /\ UNCHANGED <<detectorVars, cacheVars, incrementalVars, parallelVars, schemaVars,
                   data_test, enhancedVars>>

NextGrouping ==
    \E tables \in GroupingLists, group_by_type \in BOOLEAN, batch_size \in 1..MaxBatchSize :
        GroupTables(tables, group_by_type, batch_size)

SpecGrouping == StartState /\ [][NextGrouping]_vars

\* how often a table occurs in a list
RECURSIVE TimesIn(_, _)
TimesIn(table, tables) ==
    IF tables = <<>> THEN 0
    ELSE (IF Head(tables) = table THEN 1 ELSE 0) + TimesIn(table, Tail(tables))

\* C24: both grouping functions partition their input: every input table is
\* in exactly one group (as often over all groups as in the input), no group
\* is empty, and no group holds more than batch_size tables.
C24_GroupsPartition ==
    grouping # None =>
        LET tables == grouping[1].tables
            table_groups == grouping[1].table_groups
        IN  /\ \A table \in GroupingPool :
                    TimesIn(table, Flatten(table_groups)) = TimesIn(table, tables)
            /\ \A g \in DOMAIN table_groups :
                    /\ table_groups[g] # <<>>
                    /\ Len(table_groups[g]) <= grouping[1].batch_size

\* a grouping by type that had to split a type's tables, two of them named
\* in different case, over two groups and a third group for another type
C24_Witness ==
    /\ grouping # None
    /\ grouping[1].group_by_type
    /\ grouping[1].batch_size = 2
    /\ Len(grouping[1].tables) = 4
    /\ Len(grouping[1].table_groups) = 3
    /\ Len(grouping[1].table_groups[1]) = 2
    /\ Len(grouping[1].table_groups[2]) = 1
    /\ Head(grouping[1].table_groups[1][1].table_id)
            # Head(grouping[1].table_groups[1][2].table_id)
    /\ get_table_type(grouping[1].table_groups[1][1].table_id)
            = get_table_type(grouping[1].table_groups[2][1].table_id)

\* a grouping by size whose last group is not full
C24_BySizeWitness ==
    /\ grouping # None
    /\ ~grouping[1].group_by_type
    /\ grouping[1].batch_size = 3
    /\ Len(grouping[1].table_groups) = 2
    /\ Len(grouping[1].table_groups[2]) = 1
    /\ Len(grouping[1].table_groups[1][1].columns) < Len(grouping[1].table_groups[2][1].columns)

\* the identity keys of a list of relationships
KeysOf(relationships) ==
    {<<relationships[i].source_table, relationships[i].source_column,
       relationships[i].target_table, relationships[i].target_column>> :
        i \in DOMAIN relationships}

\* C25: when no group fails, detection fanned out over the groups returns
\* the same set of relationships, by identity key, as detect_relationships
\* over the whole list of tables; a relationship between tables of
\* different groups is in both.
C25_ParallelAgreesWithSequential ==
    (/\ run_status = "returned"
     /\ grouping # None
     /\ (\A i \in DOMAIN futures :
            /\ futures[i].collected
            /\ futures[i].nature.terminates
            /\ ~Raises(futures[i].group, futures[i].nature))
     /\ ~process_func(grouping[1].tables).raised)
        => KeysOf(collected) = KeysOf(process_func(grouping[1].tables).relationships)

\* what a from-scratch run without data testing returns for the tables
FullRun(tables) ==
    enhanced_filter_relationships(detect_relationships(tables).relationships,
                                  DefaultMaxRelsPerTable, DefaultMinConfidence, {})

\* two runs with incremental processing and without data testing, between
\* which a table changed, on tables detection does not raise on
ChangedBetweenRuns ==
    /\ config.incremental_processing
    /\ SecondRunFollows
    /\ ~log[1].raised /\ ~log[2].raised
    /\ ~detect_relationships(log[2].tables).raised
    /\ log[1].trace = <<>>
    /\ log[2].trace = <<>>
    /\ log[2].tables # log[1].tables

\* C26: after a run over the tables and a change to some of them, the
\* incremental run returns the same set of relationships, by identity key,
\* as a from-scratch run over the tables as they are now (runs without data
\* testing, so that the two are comparable).
C26_IncrementalAgreesWithFull ==
    ChangedBetweenRuns
        => KeysOf(log[2].returned) = KeysOf(FullRun(log[2].tables))

\* the part of C26 about a relationship a changed table no longer has
C26_NoStaleRelationship ==
    ChangedBetweenRuns
        => KeysOf(log[2].returned) \subseteq KeysOf(FullRun(log[2].tables))

\* the part of C26 about a relationship between a changed and an unchanged
\* table
C26_ChangedToUnchangedFound ==
    ChangedBetweenRuns
        => KeysOf(FullRun(log[2].tables)) \subseteq KeysOf(log[2].returned)

\* C27: no relationship returned by detect_relationships is a
\* self-reference: its source table is not its target table.
C27_NoSelfReference ==
    (detected # None /\ ~detected[1].raised) =>
        \A k \in DOMAIN detected[1].relationships :
            detected[1].relationships[k].source_table
                # detected[1].relationships[k].target_table

\* C28: the data validation pass changes confidence and kind only: the
\* relationship it puts out for a candidate has the candidate's identity
\* key, also when the cache holds a relationship for the candidate's table
\* pair, so that candidates with different keys leave with different keys.
C28_IdentityKept ==
    \A n \in DOMAIN log :
        /\ \A i \in DOMAIN log[n].trace :
                SameIdentity(log[n].trace[i].input, log[n].trace[i].output)
        /\ \A i, j \in DOMAIN log[n].trace :
                SameIdentity(log[n].trace[i].output, log[n].trace[j].output)
                    => SameIdentity(log[n].trace[i].input, log[n].trace[j].input)

(***************************************************************************)
(* The cache: claims C29, C30 (under SpecCache)                            *)
(***************************************************************************)
\* C29: a lookup for a table pair never returns the relationship cached for
\* another pair: the tables of a returned relationship are the two tables
\* that were asked for.
C29_KeySeparatesPairs ==
    (lookup # None /\ lookup[1].result # None)
        => {lookup[1].result[1].source_table, lookup[1].result[1].target_table}
                = {lookup[1].table1, lookup[1].table2}

\* What a lookup for the pair would return from the given cache.
Returned(memory, disk, stamps, current_time, args) ==
    get_cached_relationship(memory, disk, stamps, current_time, args[1], args[2]).result

\* C30: after clear_cache(pattern) a lookup returns nothing for every table
\* pair whose cache key contains the pattern, entries that are only on disk
\* included, and returns what it returned before for every other pair.
C30_ClearCompleteAndExact ==
    [][\A table_pattern \in ClearPatterns \ {None} :
        ClearCache(table_pattern) =>
            \A args \in LookupArguments :
                IF PatternInKey(table_pattern, get_cache_key(args[1], args[2]))
                THEN Returned(memory_cache', disk_cache', stamp', now', args) = None
                ELSE Returned(memory_cache', disk_cache', stamp', now', args)
                        = Returned(memory_cache, disk_cache, stamp, now, args)]_vars

\* The second half of C30 alone: a clear leaves the entries whose key does
\* not contain the pattern as they were.
C30_OthersKept ==
    [][\A table_pattern \in ClearPatterns \ {None} :
        ClearCache(table_pattern) =>
            \A args \in LookupArguments :
                ~PatternInKey(table_pattern, get_cache_key(args[1], args[2]))
                    => Returned(memory_cache', disk_cache', stamp', now', args)
                            = Returned(memory_cache, disk_cache, stamp, now, args)]_vars

====
